---------------------------- MODULE Spec2Model ----------------------------
(***************************************************************************)
(* Model of the Icelandic chemistry tutor's core:                          *)
(*   - backend/src/content_processor.py  (ContentProcessor)                *)
(*   - backend/src/batch_ingest.py       (BatchIngestor)                   *)
(*   - backend/src/rag_pipeline.py       (RAGPipeline.ask)                 *)
(*   - backend/src/llm_client.py         (ClaudeClient.generate_answer)    *)
(*                                                                         *)
(* A markdown document is the sequence of its lines (content.split('\n')). *)
(* A line is a record [k, w, n, num, title]: k is the class of the line    *)
(* with respect to the regular expressions and string tests of the code,   *)
(* w is len(line.split()), the number of whitespace-separated tokens of    *)
(* the line, n is the chapter number a chapter heading captures (0         *)
(* elsewhere), num the section number a section header captures and title  *)
(* the captured title ("" elsewhere).  The classes, with an example line:  *)
(*   blank    ""                  fence    "```"                            *)
(*   chapter  "# Kafli 1: Efni"   item     "- atriði"                       *)
(*   hash     "#"                 indent   "  texti"                        *)
(*   kafli    "Kafli 1: Efni"     eqblock  "$$ E = mc^2 $$"                 *)
(*   section  "## 1.1 Titill"     eqopen   "$$"                             *)
(*   h2       "## Titill"         eqinline "$x$"                            *)
(*   h3       "### Titill"        text     "orð orð orð"                    *)
(*   surrogate  a text line holding a lone surrogate code point             *)
(***************************************************************************)
EXTENDS Integers, Sequences, FiniteSets, TLC

\* ContentProcessor's chunk size constraints, in words.
MIN_CHUNK_SIZE == 200
TARGET_MIN_SIZE == 400
TARGET_MAX_SIZE == 600
MAX_CHUNK_SIZE == 1000

\* BatchIngestor's default batch_size.
BATCH_SIZE == 100

\* RAGPipeline's defaults.
TOP_K == 5
MAX_CONTEXT_CHUNKS == 4

---------------------------------------------------------------------------
(* Lines                                                                   *)

Line(k, w, n, num, title) ==
    [k |-> k, w |-> w, n |-> n, num |-> num, title |-> title]

BlankLine == Line("blank", 0, 0, "", "")

\* not line.strip()
IsBlank(l) == l.k = "blank"

\* HEADING_PATTERN.match(line): ^(#{1,6})\s+(.+)$ ; 0 when the line does not
\* match ("#" alone has no \s+(.+) and is no heading).
HeadingLevel(l) ==
    CASE l.k = "chapter" -> 1
      [] l.k = "section" -> 2
      [] l.k = "h2" -> 2
      [] l.k = "h3" -> 3
      [] OTHER -> 0

\* SECTION_PATTERN.match(line): ^##\s+(\d+\.\d+)\s+(.+)$
IsSectionHeader(l) == l.k = "section"

\* line.strip().startswith('```')
IsFence(l) == l.k = "fence"

\* LIST_ITEM_PATTERN.match(line)
IsListItem(l) == l.k = "item"

\* next_line.strip() and next_line.startswith((' ', '\t'))
IsIndented(l) == l.k = "indent"

\* '$$' in line
HasDoubleDollar(l) == l.k \in {"eqblock", "eqopen"}

\* line.count('$$') == 1
DoubleDollarOnce(l) == l.k = "eqopen"

\* line.strip().startswith('$') and line.strip().endswith('$')
DollarWrapped(l) == l.k \in {"eqblock", "eqopen", "eqinline"}

\* content.split('\n'): the empty string splits into one empty line.
SplitLines(doc) == IF doc = <<>> THEN <<BlankLine>> ELSE doc

\* len(text.split()) of the text made of these lines joined by '\n'.
RECURSIVE CountWords(_)
CountWords(ls) ==
    IF ls = <<>> THEN 0 ELSE Head(ls).w + CountWords(Tail(ls))

---------------------------------------------------------------------------
(* ContentBlock                                                            *)

AtomicTypes == {"code", "equation", "list"}

\* Mutant of ContentBlock: a block keeps the first of its lines only.
ContentBlock_FirstLine(type, content, level, word_count) ==
    [type |-> type, content |-> <<Head(content)>>, level |-> level,
     word_count |-> IF word_count = 0 THEN CountWords(content) ELSE word_count]

\* ContentBlock(type, content, level, word_count) followed by __post_init__:
\* a word count of 0 is replaced by len(content.split()).
ContentBlock(type, content, level, word_count) ==
    [type |-> type, content |-> content, level |-> level,
     word_count |-> IF word_count = 0 THEN CountWords(content) ELSE word_count]

---------------------------------------------------------------------------
(* ContentProcessor: chapter gate and section splitter                     *)

Min(S) == CHOOSE x \in S : \A y \in S : x <= y

\* The first index j >= i of ls whose line is in the set of indices hits,
\* or Len(ls) + 1 when there is none: where a "while i < len(lines) and
\* not <test>" loop of the parser stops.
FirstIn(ls, i, hits) ==
    LET S == {j \in i..Len(ls) : j \in hits} IN
    IF S = {} THEN Len(ls) + 1 ELSE Min(S)

\* content.encode('utf-8').decode('utf-8') succeeds: a lone surrogate code
\* point cannot be encoded.
ValidateEncoding(doc) == \A i \in 1..Len(doc) : doc[i].k # "surrogate"

\* Where CHAPTER_PATTERN (^#\s+Kafli\s+(\d+):\s*(.+)$, MULTILINE) matches
\* from the start of line i.  \s+ also matches line breaks, so the match
\* can start on a line holding only "#" and go on, over blank lines, on a
\* following line "Kafli N: Title".  The result is the index of the line
\* holding the captured number and title, 0 when there is no match at i.
ChapterMatchAt(ls, i) ==
    IF ls[i].k = "chapter" THEN i
    ELSE IF ls[i].k = "hash"
    THEN LET j == FirstIn(ls, i + 1, {n \in 1..Len(ls) : ~IsBlank(ls[n])}) IN
         IF j <= Len(ls) /\ ls[j].k = "kafli" THEN j ELSE 0
    ELSE 0

\* _extract_chapter_info: CHAPTER_PATTERN.search(content), the first match;
\* None is modelled as found = FALSE.
ExtractChapterInfo(doc) ==
    LET ls == SplitLines(doc)
        S == {i \in 1..Len(ls) : ChapterMatchAt(ls, i) # 0}
    IN IF S = {}
       THEN [found |-> FALSE, chapter_number |-> 0, chapter_title |-> ""]
       ELSE LET l == ls[ChapterMatchAt(ls, Min(S))] IN
            [found |-> TRUE, chapter_number |-> l.n, chapter_title |-> l.title]

\* _split_into_sections: a section runs from a line matching SECTION_PATTERN
\* up to the line before the next such line; its content starts with the
\* header line itself.  Lines before the first header belong to no section.
SplitIntoSections(doc) ==
    LET ls == SplitLines(doc)
        heads == {i \in 1..Len(ls) : IsSectionHeader(ls[i])}
        RECURSIVE From(_)
        From(i) ==
            IF i > Len(ls) THEN <<>>
            ELSE LET nxt == FirstIn(ls, i + 1, heads) IN
                 <<[section_number |-> ls[i].num,
                    section_title |-> ls[i].title,
                    header |-> ls[i],
                    content |-> SubSeq(ls, i, nxt - 1)]>> \o From(nxt)
    IN From(FirstIn(ls, 1, heads))

---------------------------------------------------------------------------
(* ContentProcessor: structural parser                                     *)

\* The line opens one of the blocks the paragraph loop stops at: empty line,
\* heading, list item, code fence or a line holding '$$'.
EndsParagraph(l) ==
    \/ IsBlank(l)
    \/ HeadingLevel(l) > 0
    \/ IsListItem(l)
    \/ IsFence(l)
    \/ HasDoubleDollar(l)

\* Mutant of CodeBlockEnd: a list item inside the fence ends the code block
\* before it.
CodeBlockEnd_AtListItem(ls, i) ==
    LET j == FirstIn(ls, i + 1,
               {n \in 1..Len(ls) : IsFence(ls[n]) \/ IsListItem(ls[n])})
    IN IF j > Len(ls) THEN Len(ls)
       ELSE IF IsFence(ls[j]) THEN j ELSE j - 1

\* The last line of the code block opened at line i: the loop "while i <
\* len(lines) and not lines[i].strip().startswith('```')" stops at the next
\* fence, which is taken into the block, or at the end of the lines.
CodeBlockEnd(ls, i) ==
    LET j == FirstIn(ls, i + 1, {n \in 1..Len(ls) : IsFence(ls[n])})
    IN IF j <= Len(ls) THEN j ELSE Len(ls)

\* The block that starts at line i (a non-blank line) and the index of the
\* first line after it: one pass of the while loop of _parse_content_blocks,
\* the tests taken in the order of the code (heading, code, list, equation,
\* paragraph).
BlockAt(ls, i) ==
    LET line == ls[i]
        all == 1..Len(ls)
    IN
    IF HeadingLevel(line) > 0
    THEN [block |-> ContentBlock("heading", <<line>>, HeadingLevel(line), line.w - 1),
          next |-> i + 1]
    ELSE IF IsFence(line)
    THEN LET stop == CodeBlockEnd(ls, i)
         IN [block |-> ContentBlock("code", SubSeq(ls, i, stop), 0, 0),
             next |-> stop + 1]
    ELSE IF IsListItem(line)
    THEN LET j == FirstIn(ls, i + 1,
                    {n \in all : ~(IsListItem(ls[n]) \/ IsIndented(ls[n])
                                   \/ IsBlank(ls[n]))})
         IN [block |-> ContentBlock("list", SubSeq(ls, i, j - 1), 0, 0),
             next |-> j]
    ELSE IF HasDoubleDollar(line) \/ DollarWrapped(line)
    THEN IF HasDoubleDollar(line) /\ DoubleDollarOnce(line)
         THEN LET j == FirstIn(ls, i + 1, {n \in all : HasDoubleDollar(ls[n])})
                  stop == IF j <= Len(ls) THEN j ELSE Len(ls)
              IN [block |-> ContentBlock("equation", SubSeq(ls, i, stop), 0, 0),
                  next |-> stop + 1]
         ELSE [block |-> ContentBlock("equation", <<line>>, 0, 0),
               next |-> i + 1]
    ELSE LET j == FirstIn(ls, i + 1, {n \in all : EndsParagraph(ls[n])})
         IN [block |-> ContentBlock("paragraph", SubSeq(ls, i, j - 1), 0, 0),
             next |-> j]

\* _parse_content_blocks on the lines of a section's content.
ParseContentBlocks(content) ==
    LET ls == SplitLines(content)
        RECURSIVE Scan(_)
        Scan(i) ==
            IF i > Len(ls) THEN <<>>
            ELSE IF IsBlank(ls[i]) THEN Scan(i + 1)
            ELSE LET b == BlockAt(ls, i) IN <<b.block>> \o Scan(b.next)
    IN Scan(1)

---------------------------------------------------------------------------
(* ContentProcessor: chunk assembler                                       *)

\* The loop state after a block is made the first block of a new chunk, the
\* current chunk being closed.
StartNewChunk(st, block) ==
    [chunks |-> Append(st.chunks, st.current_chunk),
     current_chunk |-> <<block>>,
     current_word_count |-> block.word_count]

\* The loop state after a block is added to the current chunk.
AddToCurrent(st, block) ==
    [chunks |-> st.chunks,
     current_chunk |-> Append(st.current_chunk, block),
     current_word_count |-> st.current_word_count + block.word_count]

\* Mutant of AtomicStep: the test "current_chunk and" is left out, so that a
\* block above the maximum closes an empty chunk.
AtomicStep_NoEmptyTest(st, block) ==
    IF st.current_word_count + block.word_count > MAX_CHUNK_SIZE
    THEN StartNewChunk(st, block)
    ELSE AddToCurrent(st, block)

\* Mutant of AtomicStep: the size of the block alone is tested, not the
\* size the chunk would reach.
AtomicStep_BlockSizeOnly(st, block) ==
    IF st.current_chunk # <<>> /\ block.word_count > MAX_CHUNK_SIZE
    THEN StartNewChunk(st, block)
    ELSE AddToCurrent(st, block)

\* Mutant of AtomicStep: an atomic block is always added to the chunk at
\* hand.
AtomicStep_AlwaysAdd(st, block) == AddToCurrent(st, block)

\* The branch of the loop for code, equation and list blocks: a new chunk is
\* started when there is content and the block would take it above the
\* maximum.
AtomicStep(st, block) ==
    IF st.current_chunk # <<>>
       /\ st.current_word_count + block.word_count > MAX_CHUNK_SIZE
    THEN StartNewChunk(st, block)
    ELSE AddToCurrent(st, block)

\* Mutant of ParagraphStep: a block that takes the chunk to the maximum
\* closes the current chunk first, as in the branch of the atomic blocks
\* but without its test for an empty chunk.
ParagraphStep_CloseBefore(st, block) ==
    IF st.current_word_count + block.word_count >= MAX_CHUNK_SIZE
    THEN StartNewChunk(st, block)
    ELSE IF st.current_word_count >= TARGET_MIN_SIZE
            /\ st.current_word_count + block.word_count > TARGET_MAX_SIZE
    THEN StartNewChunk(st, block)
    ELSE AddToCurrent(st, block)

\* Mutant of ParagraphStep: above the target minimum every block starts a
\* new chunk, whatever its size.
ParagraphStep_AtTargetMin(st, block) ==
    IF st.current_word_count >= TARGET_MIN_SIZE
    THEN StartNewChunk(st, block)
    ELSE IF st.current_word_count + block.word_count >= MAX_CHUNK_SIZE
    THEN [chunks |-> Append(st.chunks, Append(st.current_chunk, block)),
          current_chunk |-> <<>>,
          current_word_count |-> 0]
    ELSE AddToCurrent(st, block)

\* Mutant of ParagraphStep: the test of the target window is left out; a
\* block is added, and the chunk closed when it has reached the maximum.
ParagraphStep_NoTargetTest(st, block) ==
    IF st.current_word_count + block.word_count >= MAX_CHUNK_SIZE
    THEN [chunks |-> Append(st.chunks, Append(st.current_chunk, block)),
          current_chunk |-> <<>>,
          current_word_count |-> 0]
    ELSE AddToCurrent(st, block)

\* The branch of the loop for paragraphs and headings: above the target
\* minimum a block that would pass the target maximum starts a new chunk;
\* otherwise the block is added, and the chunk closed when it has reached
\* the maximum.
ParagraphStep(st, block) ==
    IF st.current_word_count >= TARGET_MIN_SIZE
       /\ st.current_word_count + block.word_count > TARGET_MAX_SIZE
    THEN StartNewChunk(st, block)
    ELSE IF st.current_word_count + block.word_count >= MAX_CHUNK_SIZE
    THEN [chunks |-> Append(st.chunks, Append(st.current_chunk, block)),
          current_chunk |-> <<>>,
          current_word_count |-> 0]
    ELSE AddToCurrent(st, block)

\* One pass of the for loop of _group_blocks_into_chunks over a block, on
\* the loop state st = [chunks, current_chunk, current_word_count]; section
\* headers (level 2) are skipped.
GroupStep(st, block) ==
    IF block.type = "heading" /\ block.level = 2
    THEN st
    ELSE IF block.type \in AtomicTypes
    THEN AtomicStep(st, block)
    ELSE ParagraphStep(st, block)

\* _group_blocks_into_chunks: the loop, then the flush of a non-empty
\* current chunk.
GroupBlocksIntoChunks(blocks) ==
    LET RECURSIVE Loop(_, _)
        Loop(st, i) ==
            IF i > Len(blocks) THEN st ELSE Loop(GroupStep(st, blocks[i]), i + 1)
        end == Loop([chunks |-> <<>>, current_chunk |-> <<>>,
                     current_word_count |-> 0], 1)
    IN IF end.current_chunk # <<>>
       THEN Append(end.chunks, end.current_chunk)
       ELSE end.chunks

---------------------------------------------------------------------------
(* ContentProcessor: rendering and metadata                                *)

RECURSIVE StripLeft(_)
StripLeft(ls) ==
    IF ls # <<>> /\ IsBlank(Head(ls)) THEN StripLeft(Tail(ls)) ELSE ls

RECURSIVE StripRight(_)
StripRight(ls) ==
    IF ls # <<>> /\ IsBlank(ls[Len(ls)])
    THEN StripRight(SubSeq(ls, 1, Len(ls) - 1))
    ELSE ls

\* _render_chunk: the header and an empty line, then every block followed
\* by an empty line, joined by '\n' and stripped; as a sequence of lines.
RenderChunk(blocks, section_header) ==
    LET RECURSIVE Body(_)
        Body(i) ==
            IF i > Len(blocks) THEN <<>>
            ELSE blocks[i].content \o <<BlankLine>> \o Body(i + 1)
    IN StripRight(StripLeft(<<section_header, BlankLine>> \o Body(1)))

\* sum(block.word_count for block in chunk_blocks)
RECURSIVE SumWordCounts(_)
SumWordCounts(blocks) ==
    IF blocks = <<>> THEN 0
    ELSE Head(blocks).word_count + SumWordCounts(Tail(blocks))

\* chunk_index of the i-th chunk group (0-based i) of a section whose first
\* chunk gets start_chunk_index.
ChunkIndex(start_chunk_index, i) == start_chunk_index + i

\* _process_section: one ProcessedChunk per chunk group.  The field blocks
\* is not part of ProcessedChunk: it keeps the group the chunk was rendered
\* from, for the properties that speak of a chunk's blocks.
ProcessSection(section, start_chunk_index, chapter_number, chapter_title) ==
    LET chunk_groups == GroupBlocksIntoChunks(ParseContentBlocks(section.content))
    IN [i \in 1..Len(chunk_groups) |->
          [content |-> RenderChunk(chunk_groups[i], section.header),
           blocks |-> chunk_groups[i],
           metadata |->
             [chapter_number |-> chapter_number,
              section_number |-> section.section_number,
              chapter_title |-> chapter_title,
              section_title |-> section.section_title,
              chunk_index |-> ChunkIndex(start_chunk_index, i - 1),
              word_count |-> SumWordCounts(chunk_groups[i])]]]

\* Mutant of NextChunkIndex: the counter is advanced once per section.
NextChunkIndex_PerSection(chunk_index, section_chunks) == chunk_index + 1

\* chunk_index += len(section_chunks)
NextChunkIndex(chunk_index, section_chunks) == chunk_index + Len(section_chunks)

\* The loop of process_file over the sections.
AllChunks(sections, chapter_number, chapter_title) ==
    LET RECURSIVE Loop(_, _)
        Loop(i, chunk_index) ==
            IF i > Len(sections) THEN <<>>
            ELSE LET section_chunks ==
                       ProcessSection(sections[i], chunk_index,
                                      chapter_number, chapter_title)
                 IN section_chunks
                    \o Loop(i + 1, NextChunkIndex(chunk_index, section_chunks))
    IN Loop(1, 0)

\* Mutant of ChapterGateRaises: the processor looks for the heading on one
\* line only, and misses the heading broken after its "#" that the
\* validator's pattern finds.
ChapterGateRaises_OneLine(doc) == \A i \in 1..Len(doc) : doc[i].k # "chapter"

\* The chapter gate of process_file: no chapter information, ValueError.
ChapterGateRaises(doc) == ~ExtractChapterInfo(doc).found

\* int(match.group(1)) raises ValueError: the digits of the chapter number
\* are more than the interpreter converts (4300 by default); such a heading
\* is written with n = -1, no number being there to hold.
IntRaises(l) == l.n < 0

\* _extract_chapter_info raises: the conversion of the number of the first
\* chapter heading does.
ChapterNumberRaises(doc) ==
    LET ls == SplitLines(doc)
        S == {i \in 1..Len(ls) : ChapterMatchAt(ls, i) # 0}
    IN S # {} /\ IntRaises(ls[ChapterMatchAt(ls, Min(S))])

\* Mutant of ProcessFile: the chapter fields are set only while no chapter
\* number is stored, so a later document is chunked under the chapter of the
\* first.
ProcessFile_KeepsFirstChapter(self, doc) ==
    IF ~ValidateEncoding(doc)
    THEN [raised |-> TRUE, error |-> "encoding", chunks |-> <<>>, self |-> self]
    ELSE IF ChapterNumberRaises(doc)
    THEN [raised |-> TRUE, error |-> "int", chunks |-> <<>>, self |-> self]
    ELSE IF ChapterGateRaises(doc)
    THEN [raised |-> TRUE, error |-> "chapter", chunks |-> <<>>, self |-> self]
    ELSE LET info == ExtractChapterInfo(doc)
             new == IF self.current_chapter_number = 0
                    THEN [current_chapter_number |-> info.chapter_number,
                          current_chapter_title |-> info.chapter_title]
                    ELSE self
         IN [raised |-> FALSE, error |-> "",
             chunks |-> AllChunks(SplitIntoSections(doc),
                                  new.current_chapter_number,
                                  new.current_chapter_title),
             self |-> new]

\* ContentProcessor.process_file(content) on an instance whose fields are
\* self = [current_chapter_number, current_chapter_title]: the outcome
\* (raised, the error, the chunks returned) and the instance's fields after
\* the call.
ProcessFile(self, doc) ==
    IF ~ValidateEncoding(doc)
    THEN [raised |-> TRUE, error |-> "encoding", chunks |-> <<>>, self |-> self]
    ELSE IF ChapterNumberRaises(doc)
    THEN [raised |-> TRUE, error |-> "int", chunks |-> <<>>, self |-> self]
    ELSE IF ChapterGateRaises(doc)
    THEN [raised |-> TRUE, error |-> "chapter", chunks |-> <<>>, self |-> self]
    ELSE LET info == ExtractChapterInfo(doc)
             new == [current_chapter_number |-> info.chapter_number,
                     current_chapter_title |-> info.chapter_title]
         IN [raised |-> FALSE, error |-> "",
             chunks |-> AllChunks(SplitIntoSections(doc),
                                  new.current_chapter_number,
                                  new.current_chapter_title),
             self |-> new]

---------------------------------------------------------------------------
(* BatchIngestor (constructed with validate=False: --no-validate)          *)

\* The id store_chunks gives a chunk, f"ch{chapter_number}_sec{section_number}
\* _chunk{chunk_index}": the three values the string is built from (the
\* section number holds no '_', so the string determines them).
ChunkId(chunk) ==
    <<chunk.metadata.chapter_number, chunk.metadata.section_number,
      chunk.metadata.chunk_index>>

\* What the installed vector store does when collection.add meets an id it
\* already holds: the repository's test_duplicate_ids accepts both outcomes
\* ("Behavior depends on ChromaDB version (upsert or error)").
AddBehaviours == {"upsert", "error"}

\* self.collection.add(ids, embeddings, documents, metadatas) on a
\* collection, a set of [id, document]: the collection after the call and
\* whether the call raised.
CollectionAdd(coll, batch, behaviour) ==
    LET new == {[id |-> ChunkId(batch[i]), document |-> batch[i].content]
                  : i \in 1..Len(batch)}
        newIds == {r.id : r \in new}
        clash == \E r \in coll : r.id \in newIds
    IN IF clash /\ behaviour = "error"
       THEN [raised |-> TRUE, coll |-> coll]
       ELSE [raised |-> FALSE,
             coll |-> {r \in coll : r.id \notin newIds} \cup new]

\* BatchIngestor.process_file(filepath) with self.validate false: the
\* chunks, or None (ok = FALSE) with the error recorded.
IngestFile(self, doc) ==
    LET Outcome(r) ==
            [ok |-> ~r.raised, chunks |-> r.chunks, self |-> r.self,
             errors |-> IF r.raised THEN <<[error_type |-> "ValueError",
                                            error_message |-> r.error]>>
                        ELSE <<>>]
    IN Outcome(ProcessFile(self, doc))

\* The storing loop of process_all from chunk i on: all_chunks cut into
\* batches of batch_size, each handed to store_chunks (which adds it in one
\* call, a batch being no longer than batch_size); an exception of
\* collection.add is re-raised by store_chunks and leaves process_all.
RECURSIVE StoreBatches(_, _, _, _, _)
StoreBatches(c, all_chunks, i, ids, behaviour) ==
    IF i > Len(all_chunks)
    THEN [raised |-> FALSE, coll |-> c, ids |-> ids]
    ELSE LET last == IF i + BATCH_SIZE - 1 < Len(all_chunks)
                     THEN i + BATCH_SIZE - 1 ELSE Len(all_chunks)
             batch == SubSeq(all_chunks, i, last)
             bids == [n \in 1..Len(batch) |-> ChunkId(batch[n])]
             r == CollectionAdd(c, batch, behaviour)
         IN IF r.raised
            THEN [raised |-> TRUE, coll |-> c, ids |-> ids \o bids]
            ELSE StoreBatches(r.coll, all_chunks, i + BATCH_SIZE, ids \o bids,
                              behaviour)

StoreAll(coll, all_chunks, behaviour) ==
    StoreBatches(coll, all_chunks, 1, <<>>, behaviour)

\* The reading loop of process_all from file i on: a file that fails, or
\* gives no chunk, counts as failed.
RECURSIVE ReadFiles(_, _, _, _)
ReadFiles(files, i, self, acc) ==
    LET Count(r) ==
            LET good == r.ok /\ r.chunks # <<>> IN
            ReadFiles(files, i + 1, r.self,
              [all_chunks |-> IF good THEN acc.all_chunks \o r.chunks
                              ELSE acc.all_chunks,
               errors |-> acc.errors \o r.errors,
               processed_files |-> acc.processed_files
                                   + (IF good THEN 1 ELSE 0),
               failed_files |-> acc.failed_files
                                + (IF good THEN 0 ELSE 1),
               self |-> acc.self])
    IN IF i > Len(files) THEN [acc EXCEPT !.self = self]
       ELSE Count(IngestFile(self, files[i]))

\* One run of the ingestion script (main): a new BatchIngestor, so a new
\* ContentProcessor, over the files of the input directory, on the
\* persistent collection.  Gives the collection after the run, the ids
\* store_chunks generated, whether the run ended by an exception, the
\* errors recorded and the file counters.
ProcessAll(coll, files, behaviour) ==
    LET fresh == [current_chapter_number |-> 0, current_chapter_title |-> ""]
        Stats(read, stored) ==
            [coll |-> stored.coll, ids |-> stored.ids,
             aborted |-> stored.raised, errors |-> read.errors,
             processed_files |-> read.processed_files,
             failed_files |-> read.failed_files, self |-> read.self]
        Store(read) == Stats(read, StoreAll(coll, read.all_chunks, behaviour))
    IN Store(ReadFiles(files, 1, fresh,
                       [all_chunks |-> <<>>, errors |-> <<>>,
                        processed_files |-> 0, failed_files |-> 0,
                        self |-> fresh]))

---------------------------------------------------------------------------
(* ChapterValidator                                                        *)

\* ChapterValidator's limits.
MIN_CONTENT_LENGTH == 100
MIN_SECTIONS == 1
MAX_SECTIONS == 50

\* The text of a line: a word is "orð", words are separated by one space, a
\* list item is "-" followed by words, an indented line starts with two
\* spaces, and the fixed lines are the examples of the table above.  Chars
\* is len(line).
Chars(l) ==
    CASE l.k = "blank" -> 0
      [] l.k = "chapter" -> 15
      [] l.k = "hash" -> 1
      [] l.k = "kafli" -> 13
      [] l.k = "section" -> 13
      [] l.k = "h2" -> 9
      [] l.k = "h3" -> 10
      [] l.k = "fence" -> 3
      [] l.k = "eqopen" -> 2
      [] l.k = "eqblock" -> 14
      [] l.k = "eqinline" -> 3
      [] l.k = "item" -> 4 * l.w - 3
      [] l.k = "indent" -> 4 * l.w + 1
      [] OTHER -> 4 * l.w - 1

\* The number of characters of ICELANDIC_CHARS in the line: one per "orð".
IcelandicChars(l) ==
    CASE l.k \in {"text", "indent", "surrogate"} -> l.w
      [] l.k = "item" -> l.w - 1
      [] OTHER -> 0

\* The terms of icelandic_chemistry_terms found in the line, lower-cased:
\* "efni" in the title "Efni".
ChemistryTerms(l) == IF l.title = "Efni" THEN {"efni"} ELSE {}

\* line.strip().startswith('#')
StartsWithHash(l) == l.k \in {"chapter", "hash", "section", "h2", "h3"}

\* CORRUPTED_CHAR_PATTERN finds a control character in the line.
HasControlChar(l) == l.k = "control"

\* len(content), the lines joined by '\n'.
RECURSIVE ContentLength(_)
ContentLength(ls) ==
    IF ls = <<>> THEN 0
    ELSE Chars(Head(ls)) + (IF Len(ls) > 1 THEN 1 ELSE 0)
         + ContentLength(Tail(ls))

\* An entry of errors or warnings: the text and the number it holds (0 when
\* it holds none).
Message(msg, n) == [msg |-> msg, n |-> n]

\* The dict chapter_info: keys is the set of the keys it holds, and the
\* value of a key it does not hold is of no account.
EmptyInfo ==
    [keys |-> {}, chapter_number |-> 0, chapter_title |-> "",
     section_count |-> 0, sections |-> <<>>, subsection_count |-> 0,
     word_count |-> 0, line_count |-> 0, icelandic_char_count |-> 0,
     icelandic_chemistry_terms_found |-> {}]

\* reset(): the state of a new validator.
ValidatorReset ==
    [errors |-> <<>>, warnings |-> <<>>, chapter_info |-> EmptyInfo]

AddError(self, m) == [self EXCEPT !.errors = Append(@, m)]

AddWarning(self, m) == [self EXCEPT !.warnings = Append(@, m)]

\* self.chapter_info[key] = value for the keys of info.
SetInfo(self, info) ==
    [self EXCEPT !.chapter_info =
        [k \in DOMAIN @ |->
            IF k = "keys" THEN @.keys \cup DOMAIN info
            ELSE IF k \in DOMAIN info THEN info[k] ELSE @[k]]]

\* Mutant of BuildResult: warnings count against valid.
BuildResult_Warnings(self) ==
    [valid |-> self.errors = <<>> /\ self.warnings = <<>>,
     errors |-> self.errors, warnings |-> self.warnings,
     chapter_info |-> self.chapter_info]

\* _build_result
BuildResult(self) ==
    [valid |-> Len(self.errors) = 0, errors |-> self.errors,
     warnings |-> self.warnings, chapter_info |-> self.chapter_info]

\* not content: the empty string.
ContentIsEmpty(doc) == ContentLength(doc) = 0 /\ Len(doc) <= 1

\* 1. _validate_encoding
CheckEncoding(self, doc) ==
    IF ValidateEncoding(doc) THEN self
    ELSE AddError(self, Message("Invalid UTF-8 encoding", 0))

\* 2. _check_corrupted_characters
CheckCorruptedCharacters(self, doc) ==
    LET n == Cardinality({i \in 1..Len(doc) : HasControlChar(doc[i])}) IN
    IF n > 0
    THEN AddError(self, Message("Found corrupted control characters", n))
    ELSE self

\* 3. the minimum content length
CheckLength(self, doc) ==
    IF ContentLength(doc) < MIN_CONTENT_LENGTH
    THEN AddError(self, Message("Content too short", ContentLength(doc)))
    ELSE self

\* _validate_heading_hierarchy from line i on: a warning for every heading
\* more than one level below the heading before it.
RECURSIVE HierarchyWarnings(_, _, _)
HierarchyWarnings(ls, i, prev_level) ==
    IF i > Len(ls) THEN <<>>
    ELSE LET level == HeadingLevel(ls[i]) IN
         IF level = 0 THEN HierarchyWarnings(ls, i + 1, prev_level)
         ELSE (IF prev_level > 0 /\ level > prev_level + 1
               THEN <<Message("Heading hierarchy skip", i)>> ELSE <<>>)
              \o HierarchyWarnings(ls, i + 1, level)

\* SECTION_PATTERN.findall(content)
SectionHeaders(doc) ==
    LET IsHeader(l) == IsSectionHeader(l) IN SelectSeq(doc, IsHeader)

\* 4. _validate_structure
CheckStructure(self, doc) ==
    LET ls == SplitLines(doc)
        hashes == {i \in 1..Len(ls) : StartsWithHash(ls[i])}
        first == FirstIn(ls, 1, hashes)
        n == Len(SectionHeaders(doc))
        s1 == IF ~ExtractChapterInfo(doc).found
              THEN AddError(self, Message("Missing chapter heading", 0))
              ELSE IF first <= Len(ls) /\ ls[first].k # "chapter"
              THEN AddWarning(self,
                     Message("First heading is not a chapter heading", 0))
              ELSE self
        s2 == IF n < MIN_SECTIONS
              THEN AddError(s1, Message("Too few sections", n))
              ELSE IF n > MAX_SECTIONS
              THEN AddWarning(s1, Message("Many sections", n))
              ELSE s1
    IN [s2 EXCEPT !.warnings = @ \o HierarchyWarnings(ls, 1, 0)]

\* _extract_metadata raises: the conversion of the chapter number does.
MetadataRaises(doc) == ChapterNumberRaises(doc)

\* 5. _extract_metadata (when it does not raise)
ExtractMetadata(self, doc) ==
    LET ch == ExtractChapterInfo(doc)
        heads == SectionHeaders(doc)
        s1 == IF ch.found
              THEN SetInfo(self, [chapter_number |-> ch.chapter_number,
                                  chapter_title |-> ch.chapter_title])
              ELSE self
    IN SetInfo(s1,
         [section_count |-> Len(heads),
          sections |-> [i \in 1..Len(heads) |->
                          [number |-> heads[i].num, title |-> heads[i].title]],
          subsection_count |->
              Cardinality({i \in 1..Len(doc) : doc[i].k = "h3"}),
          word_count |-> CountWords(doc),
          line_count |-> Len(SplitLines(doc))])

\* len(section_content) of the part of content.split('##') that starts at
\* line i: the lines after the header line up to the next line holding
\* '##', joined and stripped.
PartLength(ls, i) ==
    LET marks == {j \in 1..Len(ls) : ls[j].k \in {"section", "h2", "h3"}}
        nxt == FirstIn(ls, i + 1, marks)
        body == StripRight(StripLeft(SubSeq(ls, i + 1, nxt - 1)))
    IN IF body = <<>> THEN 0
       ELSE ContentLength(body) - (IF body[1].k = "indent" THEN 2 ELSE 0)

\* The warnings of _check_required_elements for the parts from the p-th on,
\* marks being the lines the parts start at, in order.
RECURSIVE PartWarnings(_, _, _)
PartWarnings(ls, marks, p) ==
    IF p > Len(marks) THEN <<>>
    ELSE LET n == PartLength(ls, marks[p]) IN
         (IF n = 0 THEN <<Message("Section appears to be empty", p)>>
          ELSE IF n < 50 THEN <<Message("Section has very little content", p)>>
          ELSE <<>>)
         \o PartWarnings(ls, marks, p + 1)

\* 6. _check_required_elements
CheckRequiredElements(self, doc) ==
    LET ls == SplitLines(doc)
        IsMark(i) == ls[i].k \in {"section", "h2", "h3"}
        marks == SelectSeq([i \in 1..Len(ls) |-> i], IsMark)
        paragraphs == {i \in 1..Len(ls) :
                         ~IsBlank(ls[i]) /\ ~StartsWithHash(ls[i])}
        s1 == IF paragraphs = {}
              THEN AddError(self, Message("No paragraph content found", 0))
              ELSE self
    IN [s1 EXCEPT !.warnings = @ \o PartWarnings(ls, marks, 1)]

\* The sum of f over the lines.
RECURSIVE SumIcelandicChars(_)
SumIcelandicChars(ls) ==
    IF ls = <<>> THEN 0
    ELSE IcelandicChars(Head(ls)) + SumIcelandicChars(Tail(ls))

\* 7. _validate_icelandic_content
CheckIcelandicContent(self, doc) ==
    LET count == SumIcelandicChars(doc)
        found_terms == UNION {ChemistryTerms(doc[i]) : i \in 1..Len(doc)}
        s1 == IF count = 0
              THEN AddWarning(self,
                     Message("No Icelandic special characters found", 0))
              ELSE self
        s2 == SetInfo(s1, [icelandic_char_count |-> count,
                           icelandic_chemistry_terms_found |-> found_terms])
    IN IF found_terms = {}
       THEN AddWarning(s2,
              Message("No common Icelandic chemistry terms found", 0))
       ELSE s2

\* line and line != line.rstrip(): no line of the table ends with white
\* space.
HasTrailingWhitespace(l) == FALSE

\* The groups of more than three blank lines before a line that is not
\* blank, counted from line i on with blank_count blank lines just before.
RECURSIVE BlankLineGroups(_, _, _)
BlankLineGroups(ls, i, blank_count) ==
    IF i > Len(ls) THEN 0
    ELSE IF IsBlank(ls[i]) THEN BlankLineGroups(ls, i + 1, blank_count + 1)
    ELSE (IF blank_count > 3 THEN 1 ELSE 0) + BlankLineGroups(ls, i + 1, 0)

\* The list markers of the lines: every list item of the table is "- ...".
ListMarkers(ls) ==
    {"-" : i \in {n \in 1..Len(ls) : ls[n].k = "item"}}

\* 8. _check_formatting_issues
CheckFormattingIssues(self, doc) ==
    LET ls == SplitLines(doc)
        trailing == Cardinality({i \in 1..Len(ls) :
                                   HasTrailingWhitespace(ls[i])})
        groups == BlankLineGroups(ls, 1, 0)
        s1 == IF trailing > 0
              THEN AddWarning(self, Message("Found trailing whitespace", trailing))
              ELSE self
        s2 == IF groups > 0
              THEN AddWarning(s1,
                     Message("Found groups of excessive blank lines", groups))
              ELSE s1
    IN IF Cardinality(ListMarkers(ls)) > 1
       THEN AddWarning(s2, Message("Inconsistent list markers found", 0))
       ELSE s2

\* The checks of validate_content before _extract_metadata.
ChecksBeforeMetadata(self, doc) ==
    CheckStructure(CheckLength(CheckCorruptedCharacters(
        CheckEncoding(self, doc), doc), doc), doc)

\* The checks of validate_content from _extract_metadata on.
ChecksFromMetadata(self, doc) ==
    CheckFormattingIssues(CheckIcelandicContent(CheckRequiredElements(
        ExtractMetadata(self, doc), doc), doc), doc)

\* validate_content(content) on a validator in state self: whether it
\* raised, the ValidationResult returned and the validator afterwards.  The
\* pass goes on from the errors, warnings and chapter_info the validator
\* holds.
ValidateContent(self, doc) ==
    LET Return(s) == [raised |-> FALSE, result |-> BuildResult(s), self |-> s]
        Raise(s) == [raised |-> TRUE, result |-> BuildResult(s), self |-> s]
        Metadata(s) == IF MetadataRaises(doc) THEN Raise(s)
                       ELSE Return(ChecksFromMetadata(s, doc))
    IN IF ContentIsEmpty(doc)
       THEN Return(AddError(self, Message("Content is empty", 0)))
       ELSE Metadata(ChecksBeforeMetadata(self, doc))

\* A file on disk: it is missing, larger than MAX_FILE_SIZE_BYTES, not
\* UTF-8, not readable, or holds the text doc.
File(kind, doc) == [kind |-> kind, doc |-> doc]

FileKinds == {"missing", "oversize", "undecodable", "unreadable", "text"}

\* validate_file(filepath): reset(), the checks of the file, then
\* validate_content on what was read.
ValidateFile(self, file) ==
    LET Return(s) == [raised |-> FALSE, result |-> BuildResult(s), self |-> s]
        Fail(msg) == Return(AddError(ValidatorReset, Message(msg, 0)))
    IN CASE file.kind = "missing" -> Fail("File does not exist")
         [] file.kind = "text" /\ ContentIsEmpty(file.doc) -> Fail("File is empty")
         [] file.kind = "oversize" -> Fail("File size exceeds maximum")
         [] file.kind = "undecodable" -> Fail("File is not valid UTF-8")
         [] file.kind = "unreadable" -> Fail("Error reading file")
         [] OTHER -> ValidateContent(ValidatorReset, file.doc)

---------------------------------------------------------------------------
(* BatchIngestor with validation                                           *)

\* A new BatchIngestor(validate=True): its ContentProcessor, its
\* ChapterValidator and its list of errors.
NewIngestor ==
    [processor |-> [current_chapter_number |-> 0, current_chapter_title |-> ""],
     validator |-> ValidatorReset,
     errors |-> <<>>]

\* _record_error
RecordError(ing, file_index, error_type) ==
    [ing EXCEPT !.errors =
        Append(@, [file |-> file_index, error_type |-> error_type])]

\* BatchIngestor.process_file on the file_index-th file with self.validate
\* true: validate_content on the ingestor's validator, and process_file of
\* the processor when the result is valid.  An exception of either is
\* caught and recorded.  Gives the chunks (none: TRUE for a return of None)
\* and the ingestor afterwards.
ValidatedIngestFile(ing, file_index, doc) ==
    LET Chunked(i, r) ==
            IF r.raised
            THEN [none |-> TRUE, chunks |-> <<>>,
                  ing |-> RecordError([i EXCEPT !.processor = r.self],
                                      file_index, "ValueError")]
            ELSE [none |-> FALSE, chunks |-> r.chunks,
                  ing |-> [i EXCEPT !.processor = r.self]]
        Validated(v) ==
            IF v.raised
            THEN [none |-> TRUE, chunks |-> <<>>,
                  ing |-> RecordError([ing EXCEPT !.validator = v.self],
                                      file_index, "ValueError")]
            ELSE IF ~v.result.valid
            THEN [none |-> TRUE, chunks |-> <<>>,
                  ing |-> RecordError([ing EXCEPT !.validator = v.self],
                                      file_index, "ValidationError")]
            ELSE Chunked([ing EXCEPT !.validator = v.self],
                         ProcessFile(ing.processor, doc))
    IN Validated(ValidateContent(ing.validator, doc))

\* The reading loop of process_all from file i on with self.validate true:
\* what process_file gave for each file, and the ingestor at the end.
RECURSIVE ValidatedReadFiles(_, _, _, _)
ValidatedReadFiles(files, i, ing, outcomes) ==
    LET Count(r) ==
            ValidatedReadFiles(files, i + 1, r.ing,
                Append(outcomes,
                       [accepted |-> ~r.none /\ r.chunks # <<>>,
                        none |-> r.none, chunks |-> r.chunks]))
    IN IF i > Len(files) THEN [outcomes |-> outcomes, ing |-> ing]
       ELSE Count(ValidatedIngestFile(ing, i, files[i]))

---------------------------------------------------------------------------
(* RAGPipeline.ask and ClaudeClient.generate_answer                        *)

\* The fixed answer of ask when nothing relevant was found ("Því miður fann
\* ég engin viðeigandi gögn ...").
NoRelevantAnswer == "Því miður fann ég engin viðeigandi gögn"

\* Mutant of QuestionIsEmpty: the question is not stripped.
QuestionIsEmpty_NoStrip(question) == question = ""

\* not question or not question.strip()
QuestionIsEmpty(question) == question = "" \/ question = " "

\* _format_search_results: the raw result of the store (the first query's
\* documents, metadatas, distances, ids) as a list of chunks; a missing or
\* empty result gives no chunk.
FormatSearchResults(results) ==
    IF results.documents = <<>> THEN <<>>
    ELSE [i \in 1..Len(results.documents) |->
            [document |-> results.documents[i],
             metadata |-> IF i <= Len(results.metadatas)
                          THEN results.metadatas[i] ELSE <<>>,
             id |-> IF i <= Len(results.ids) THEN results.ids[i] ELSE 0]]

\* Mutant of NoChunks: ask goes on to the generation without any chunk.
NoChunks_Never(chunks) == FALSE

\* ask returns at once when no chunk was found.
NoChunks(chunks) == chunks = <<>>

\* The response of ask when no chunk was found.
NoResultResponse ==
    [answer |-> NoRelevantAnswer, citations |-> <<>>,
     metadata |-> [chunks_found |-> 0]]

\* Mutant of ChunksToUse: the context is not limited.
ChunksToUse_All(context_chunks, max_chunks) == context_chunks

\* chunks_to_use = context_chunks[:max_chunks]
ChunksToUse(context_chunks, max_chunks) ==
    SubSeq(context_chunks, 1,
           IF Len(context_chunks) < max_chunks THEN Len(context_chunks)
           ELSE max_chunks)

\* metadata.get(key, 'N/A')
MetaGet(metadata, key) ==
    IF key \in DOMAIN metadata THEN metadata[key] ELSE "N/A"

\* document[:100] + '...' if len(document) > 100 else document, a document
\* being [text, chars]: its text and its length in characters.
TextPreview(document) ==
    IF document.chars > 100
    THEN [text |-> document.text, chars |-> 103, cut |-> TRUE]
    ELSE [text |-> document.text, chars |-> document.chars, cut |-> FALSE]

\* The citations generate_answer builds, one per chunk used.
Citations(context_chunks, max_chunks) ==
    LET use == ChunksToUse(context_chunks, max_chunks) IN
    [i \in 1..Len(use) |->
       [chapter |-> MetaGet(use[i].metadata, "chapter"),
        section |-> MetaGet(use[i].metadata, "section"),
        title |-> MetaGet(use[i].metadata, "title"),
        text_preview |-> TextPreview(use[i].document)]]

\* The context parts generate_answer puts in the prompt, in order: for the
\* i-th chunk used, "[Heimild i - Kafli chapter.section: title]" and the
\* whole document.
ContextParts(context_chunks, max_chunks) ==
    LET use == ChunksToUse(context_chunks, max_chunks) IN
    [i \in 1..Len(use) |->
       [heimild |-> i,
        chapter |-> MetaGet(use[i].metadata, "chapter"),
        section |-> MetaGet(use[i].metadata, "section"),
        title |-> MetaGet(use[i].metadata, "title"),
        document |-> use[i].document]]

\* The response of ask built from a successful generation.
AnswerResponse(answer, chunks) ==
    [answer |-> answer, citations |-> Citations(chunks, MAX_CONTEXT_CHUNKS),
     metadata |-> [chunks_found |-> Len(chunks),
                   chunks_used |-> IF Len(chunks) < MAX_CONTEXT_CHUNKS
                                   THEN Len(chunks) ELSE MAX_CONTEXT_CHUNKS]]

---------------------------------------------------------------------------
(* State                                                                   *)

VARIABLES
    doc,                     \* the lines of the document at hand
    current_chapter_number,  \* ContentProcessor.current_chapter_number
    current_chapter_title,   \* ContentProcessor.current_chapter_title
    result,                  \* outcome of the process_file call on doc
    collection,              \* the persistent collection: a set of [id, document]
    runs,                    \* one record per finished run of the ingestion script
    ask                      \* per caller, the ask call it is in: where it
                             \* stands (pc), its question, the number of
                             \* matches the store returned (found, -1 before
                             \* the search), the chunks found, the response
                             \* or error, the number of requests it has
                             \* made to each service, and the outcomes
                             \* of its requests to the generation service
    , validator              \* one ChapterValidator: its state (self) and,
                             \* per validation pass made with it, the call,
                             \* the file or content, the errors and
                             \* warnings the pass started with, whether it
                             \* raised and the ValidationResult returned
    , batch                  \* the input directory of a batch run with
                             \* validation (files, in the order they are
                             \* processed) and, once the run is made, what
                             \* process_file gave for each file and the
                             \* errors recorded
    , assembler              \* one run of _group_blocks_into_chunks: the
                             \* blocks the for loop has taken, the loop's
                             \* state, and once the loop has ended the
                             \* groups returned
    , embed                  \* one call of generate_embeddings: where it
                             \* stands (pc), the number of batches of its
                             \* texts, the batch at hand, the retries made
                             \* for it, the requests made (batch and
                             \* outcome), the number of batches embedded,
                             \* and self.total_tokens
    , calls                  \* per process_file call made on the processor
                             \* so far: whether it raised, its error, and
                             \* the chapter number stored after it

vars == <<doc, current_chapter_number, current_chapter_title, result,
          collection, runs, ask, validator, batch, assembler, embed, calls>>

\* Bounds of the model.
MaxLines == 5
MaxIngestLines == 5
MaxValidateLines == 3
MaxBatchLines == 3
MaxParseLines == 5
MaxBlocks == 4
MaxBatches == 2
MaxCallLines == 3
MaxCalls == 2
MaxGateLines == 4
NumCallers == 2
PoolSize == 6

Callers == 1..NumCallers

NoResult == [called |-> FALSE, raised |-> FALSE, error |-> "", chunks |-> <<>>]

\* The state of the loop of _group_blocks_into_chunks before the first
\* block.
NoGroups == [chunks |-> <<>>, current_chunk |-> <<>>, current_word_count |-> 0]

\* No call of generate_embeddings is under way.
IdleEmbed ==
    [pc |-> "idle", batches |-> 0, batch |-> 0, retry |-> 0, requests |-> <<>>,
     embeddings |-> 0, total_tokens |-> 0]

IdleAsk ==
    [pc |-> "idle", question |-> "", chunks |-> <<>>, answer |-> "",
     response |-> <<>>, error |-> "", found |-> -1,
     embed_calls |-> 0, store_calls |-> 0, llm_calls |-> 0,
     requests |-> <<>>, context |-> <<>>,
     search |-> [error |-> "", first |-> 0, n |-> 0]]

Init ==
    /\ doc = <<>>
    /\ current_chapter_number = 0
    /\ current_chapter_title = ""
    /\ result = NoResult
    /\ collection = {}
    /\ runs = <<>>
    /\ ask = [c \in Callers |-> IdleAsk]
    /\ validator = [self |-> ValidatorReset, passes |-> <<>>]
    /\ batch = [files |-> <<>>, done |-> FALSE, outcomes |-> <<>>,
                errors |-> <<>>]
    /\ assembler = [blocks |-> <<>>, st |-> NoGroups, done |-> FALSE,
                    groups |-> <<>>]
    /\ embed = IdleEmbed
    /\ calls = <<>>

---------------------------------------------------------------------------
(* Documents                                                               *)

\* The lines documents are written from.  The word counts are chosen around
\* the chunk size constraints.
Lines ==
    { Line("chapter", 4, 1, "", "Efni"),
      Line("hash", 1, 0, "", ""),
      Line("kafli", 3, 1, "", "Efni"),
      Line("section", 3, 0, "1.1", "Titill"),
      Line("section", 3, 0, "1.2", "Annar"),
      BlankLine,
      Line("fence", 1, 0, "", ""),
      Line("eqopen", 1, 0, "", ""),
      Line("item", 50, 0, "", ""),
      Line("text", 50, 0, "", ""),
      Line("text", 450, 0, "", ""),
      Line("text", 1200, 0, "", "") }

IngestLines ==
    { Line("chapter", 4, 1, "", "Efni"),
      Line("section", 3, 0, "1.1", "Titill"),
      Line("section", 3, 0, "1.2", "Annar"),
      Line("text", 50, 0, "", ""),
      Line("text", 1200, 0, "", "") }

\* The documents written: a heading broken after its "#" stands at the top
\* of the document, and "Kafli N: Title" alone on a line is its second half.
MayFollow(d, l) ==
    /\ l.k = "hash" => d = <<>>
    /\ l.k = "kafli" => (Len(d) = 1 /\ d[1].k = "hash")

\* One more line of the document is written.
WriteLine ==
    /\ ~result.called
    /\ Len(doc) < MaxLines
    /\ \E l \in Lines : MayFollow(doc, l) /\ doc' = Append(doc, l)
    /\ UNCHANGED <<current_chapter_number, current_chapter_title, result,
                   collection, runs, ask, validator, batch,
                   assembler, embed, calls>>

\* processor.process_file(content) on the document.
CallProcessFile ==
    /\ ~result.called
    /\ LET Return(r) ==
             /\ result' = [called |-> TRUE, raised |-> r.raised,
                           error |-> r.error, chunks |-> r.chunks]
             /\ current_chapter_number' = r.self.current_chapter_number
             /\ current_chapter_title' = r.self.current_chapter_title
             /\ calls' = Append(calls,
                                [raised |-> r.raised, error |-> r.error,
                                 chapter_number |->
                                     r.self.current_chapter_number])
       IN Return(ProcessFile([current_chapter_number |-> current_chapter_number,
                              current_chapter_title |-> current_chapter_title],
                             doc))
    /\ UNCHANGED <<doc, collection, runs, ask, validator, batch,
                   assembler, embed>>

Next == WriteLine \/ CallProcessFile

Spec == Init /\ [][Next]_vars

---------------------------------------------------------------------------
(* Several documents on one processor                                      *)

\* The lines the documents given to one processor in turn are written
\* from: the headings of two chapters, a heading whose number int() cannot
\* convert, a line that cannot be encoded, a section header and text.
CallLines ==
    { Line("chapter", 4, 1, "", "Efni"),
      Line("chapter", 4, 2, "", "Sýrur"),
      Line("chapter", 4, -1, "", "Efni"),
      Line("surrogate", 1, 0, "", ""),
      Line("section", 3, 0, "1.1", "Titill"),
      Line("text", 3, 0, "", "") }

\* One more line of the document is written.
WriteCallLine ==
    /\ ~result.called
    /\ Len(doc) < MaxCallLines
    /\ \E l \in CallLines : doc' = Append(doc, l)
    /\ UNCHANGED <<current_chapter_number, current_chapter_title, result,
                   collection, runs, ask, validator, batch,
                   assembler, embed, calls>>

\* The caller turns to the next document; the processor is the same
\* object, its fields as the last call left them.
NextDocument ==
    /\ result.called
    /\ Len(calls) < MaxCalls
    /\ doc' = <<>>
    /\ result' = NoResult
    /\ UNCHANGED <<current_chapter_number, current_chapter_title,
                   collection, runs, ask, validator, batch,
                   assembler, embed, calls>>

NextCalls == WriteCallLine \/ CallProcessFile \/ NextDocument

\* process_file calls on one ContentProcessor, one document after another.
SpecCalls == Init /\ [][NextCalls]_vars

---------------------------------------------------------------------------
(* Documents for the parser                                                *)

\* The lines the documents given to the parser are written from: next to
\* the headers, one line of every kind the block tests tell apart, and a
\* level-2 heading that is no section header.
ParseLines ==
    { Line("chapter", 4, 1, "", "Efni"),
      Line("section", 3, 0, "1.1", "Titill"),
      Line("h2", 2, 0, "", "Titill"),
      BlankLine,
      Line("fence", 1, 0, "", ""),
      Line("item", 2, 0, "", ""),
      Line("eqinline", 1, 0, "", ""),
      Line("text", 3, 0, "", "") }

\* One more line of the document is written.
WriteParseLine ==
    /\ ~result.called
    /\ Len(doc) < MaxParseLines
    /\ \E l \in ParseLines : doc' = Append(doc, l)
    /\ UNCHANGED <<current_chapter_number, current_chapter_title, result,
                   collection, runs, ask, validator, batch,
                   assembler, embed, calls>>

NextParse == WriteParseLine \/ CallProcessFile

SpecParse == Init /\ [][NextParse]_vars

---------------------------------------------------------------------------
(* Runs of the chunk assembler                                             *)

\* The header block a section's blocks start with.
HeaderBlock ==
    ContentBlock("heading", <<Line("section", 3, 0, "1.1", "Titill")>>, 2, 2)

\* The blocks the parser hands to the assembler after the header:
\* paragraphs, lists, a code block and an equation, below the target
\* minimum, above it and above the maximum, and a level-2 heading that is
\* no section header.
BlockPool ==
    { ContentBlock("paragraph", <<Line("text", w, 0, "", "")>>, 0, 0) :
        w \in {50, 450, 1200} }
    \cup { ContentBlock("list", <<Line("item", w, 0, "", "")>>, 0, 0) :
             w \in {50, 1200} }
    \cup { ContentBlock("code", <<Line("fence", 1, 0, "", ""),
                                  Line("text", 1200, 0, "", ""),
                                  Line("fence", 1, 0, "", "")>>, 0, 0),
           ContentBlock("equation", <<Line("eqblock", 3, 0, "", "")>>, 0, 0),
           ContentBlock("heading", <<Line("h2", 2, 0, "", "Titill")>>, 2, 1) }

\* The parser gives the section header first, and never two lists in a
\* row: a list takes every list item and blank line that follows it.
MayFollowBlock(blocks, b) ==
    /\ blocks = <<>> => b = HeaderBlock
    /\ blocks # <<>> => b \in BlockPool
    /\ (blocks # <<>> /\ blocks[Len(blocks)].type = "list") => b.type # "list"

\* One pass of the for loop of _group_blocks_into_chunks, over the next
\* block of the section.
AssembleBlock ==
    /\ ~assembler.done
    /\ Len(assembler.blocks) < MaxBlocks
    /\ \E b \in BlockPool \cup {HeaderBlock} :
         /\ MayFollowBlock(assembler.blocks, b)
         /\ assembler' = [assembler EXCEPT !.blocks = Append(@, b),
                                           !.st = GroupStep(@, b)]
    /\ UNCHANGED <<doc, current_chapter_number, current_chapter_title, result,
                   collection, runs, ask, validator, batch, embed,
                   calls>>

\* The blocks are at their end: _group_blocks_into_chunks returns its
\* groups.
AssembleEnd ==
    /\ ~assembler.done
    /\ assembler.blocks # <<>>
    /\ assembler' = [assembler EXCEPT
                       !.done = TRUE,
                       !.groups = GroupBlocksIntoChunks(assembler.blocks)]
    /\ UNCHANGED <<doc, current_chapter_number, current_chapter_title, result,
                   collection, runs, ask, validator, batch, embed,
                   calls>>

NextAssemble == AssembleBlock \/ AssembleEnd

SpecAssemble == Init /\ [][NextAssemble]_vars

---------------------------------------------------------------------------
(* Ingestion runs                                                         *)

\* One more line of the file in the input directory is written, before the
\* first run.
WriteIngestLine ==
    /\ runs = <<>>
    /\ Len(doc) < MaxIngestLines
    /\ \E l \in IngestLines : doc' = Append(doc, l)
    /\ UNCHANGED <<current_chapter_number, current_chapter_title, result,
                   collection, runs, ask, validator, batch,
                   assembler, embed, calls>>

\* The ingestion script runs over the input directory, which holds the one
\* file doc; it is run at most twice.
IngestRun ==
    /\ Len(runs) < 2
    /\ \E behaviour \in AddBehaviours :
         LET End(r) ==
               /\ collection' = r.coll
               /\ runs' = Append(runs, [ids |-> r.ids, aborted |-> r.aborted,
                                        count |-> Cardinality(r.coll),
                                        errors |-> r.errors,
                                        processed_files |-> r.processed_files,
                                        failed_files |-> r.failed_files])
               /\ current_chapter_number' = r.self.current_chapter_number
               /\ current_chapter_title' = r.self.current_chapter_title
         IN End(ProcessAll(collection, <<doc>>, behaviour))
    /\ UNCHANGED <<doc, result, ask, validator, batch, assembler, embed,
                   calls>>

NextIngest == WriteIngestLine \/ IngestRun

SpecIngest == Init /\ [][NextIngest]_vars

---------------------------------------------------------------------------
(* Questions                                                               *)

Questions == {"", " ", "Hvað er atóm?"}

\* The chunks the vector store holds, in the order of their similarity to
\* the question; documents are [text, chars].
StoredChunk(n) ==
    [document |-> [text |-> n, chars |-> IF n % 2 = 0 THEN 250 ELSE 80],
     metadata |-> [chapter |-> "1", section |-> n, title |-> "Titill"],
     id |-> n]

\* The raw result of collection.query holding the n best matches from the
\* chunk first on.
QueryResult(first, n) ==
    LET hit(i) == StoredChunk(((first + i - 2) % PoolSize) + 1) IN
    [documents |-> [i \in 1..n |-> hit(i).document],
     metadatas |-> [i \in 1..n |-> hit(i).metadata],
     ids |-> [i \in 1..n |-> hit(i).id]]

\* The largest number of matches a query can return: n_results = top_k, and
\* no more than the store holds.
MaxMatches == IF TOP_K < PoolSize THEN TOP_K ELSE PoolSize

\* The chunks the best match of a caller's query can be: the first or the
\* last chunk of the store for the first caller, the chunk of its own
\* number for the others.
Firsts(c) == IF c = 1 THEN {1, PoolSize} ELSE {c}

\* ask(question) is entered: the empty question is refused at once.
AskCall(c) ==
    /\ ask[c].pc = "idle"
    /\ \E q \in Questions :
         ask' = [ask EXCEPT ![c] =
                   IF QuestionIsEmpty(q)
                   THEN [@ EXCEPT !.pc = "raised", !.question = q,
                                  !.error = "Question cannot be empty"]
                   ELSE [@ EXCEPT !.pc = "retrieve", !.question = q]]
    /\ UNCHANGED <<doc, current_chapter_number, current_chapter_title, result,
                   collection, runs, validator, batch,
                   assembler, embed, calls>>

\* Step 1 and 2 of ask: vector_store.search embeds the question and queries
\* the index; either call may fail, and ask re-raises.  With no chunk found
\* ask returns the fixed answer.
AskRetrieve(c) ==
    /\ ask[c].pc = "retrieve"
    /\ \/ ask' = [ask EXCEPT ![c] =
                    [@ EXCEPT !.pc = "raised", !.error = "embedding failed",
                              !.search = [@ EXCEPT !.error = "embedding failed"],
                              !.embed_calls = @ + 1]]
       \/ ask' = [ask EXCEPT ![c] =
                    [@ EXCEPT !.pc = "raised", !.error = "search failed",
                              !.search = [@ EXCEPT !.error = "search failed"],
                              !.embed_calls = @ + 1, !.store_calls = @ + 1]]
       \/ \E first \in Firsts(c), n \in 0..MaxMatches :
            LET chunks == FormatSearchResults(QueryResult(first, n)) IN
            ask' = [ask EXCEPT ![c] =
                      IF NoChunks(chunks)
                      THEN [@ EXCEPT !.pc = "returned", !.found = n,
                                     !.search = [@ EXCEPT !.first = first,
                                                          !.n = n],
                                     !.response = NoResultResponse,
                                     !.embed_calls = @ + 1,
                                     !.store_calls = @ + 1]
                      ELSE [@ EXCEPT !.pc = "generate", !.chunks = chunks,
                                     !.found = n,
                                     !.search = [@ EXCEPT !.first = first,
                                                          !.n = n],
                                     !.embed_calls = @ + 1,
                                     !.store_calls = @ + 1]]
    /\ UNCHANGED <<doc, current_chapter_number, current_chapter_title, result,
                   collection, runs, validator, batch,
                   assembler, embed, calls>>

\* What a request to the generation service (client.messages.create and
\* the reading of response.content[0].text and response.usage inside the
\* same try block) can come to: an answer, an exception of the client, or a
\* response without a content block, whose reading raises.
RequestOutcomes == {"answer", "exception", "no_content"}

\* The request left the try block by an exception.
RequestFailed(outcome) == outcome # "answer"

\* Mutant of AfterFailure: every failure is followed by one more request.
AfterFailure_Again(requests_made) == "retry"

\* Where generate_answer goes after a failed request: the handler of the
\* first failure sends the request once more, the handler of the second
\* re-raises.
AfterFailure(requests_made) ==
    IF requests_made = 1 THEN "retry" ELSE "raised"

\* Mutant of Request: the chunks retrieved are kept in a field of the
\* pipeline, which the first caller's retrieval overwrites.
Request_SharedChunks(c, outcome) ==
    LET made == ask[c].llm_calls + 1
        kept == IF ask[1].chunks # <<>> THEN ask[1].chunks ELSE ask[c].chunks
        sent == ContextParts(kept, MAX_CONTEXT_CHUNKS)
    IN
    ask' = [ask EXCEPT ![c] =
              IF RequestFailed(outcome)
              THEN [@ EXCEPT !.pc = AfterFailure(made),
                             !.llm_calls = made,
                             !.context = sent,
                             !.requests = Append(@, outcome),
                             !.error = IF AfterFailure(made) = "raised"
                                       THEN "generation failed" ELSE @]
              ELSE [@ EXCEPT !.pc = "returned",
                             !.llm_calls = made,
                             !.context = sent,
                             !.requests = Append(@, outcome),
                             !.response = AnswerResponse("svar", kept)]]

\* One request of generate_answer by caller c, with its outcome.
Request(c, outcome) ==
    LET made == ask[c].llm_calls + 1
        sent == ContextParts(ask[c].chunks, MAX_CONTEXT_CHUNKS)
    IN
    ask' = [ask EXCEPT ![c] =
              IF RequestFailed(outcome)
              THEN [@ EXCEPT !.pc = AfterFailure(made),
                             !.llm_calls = made,
                             !.context = sent,
                             !.requests = Append(@, outcome),
                             !.error = IF AfterFailure(made) = "raised"
                                       THEN "generation failed" ELSE @]
              ELSE [@ EXCEPT !.pc = "returned",
                             !.llm_calls = made,
                             !.context = sent,
                             !.requests = Append(@, outcome),
                             !.response = AnswerResponse("svar", ask[c].chunks)]]

\* Step 3 of ask, generate_answer: the first request to the generation
\* service.
AskGenerate(c) ==
    /\ ask[c].pc = "generate"
    /\ \E outcome \in RequestOutcomes : Request(c, outcome)
    /\ UNCHANGED <<doc, current_chapter_number, current_chapter_title, result,
                   collection, runs, validator, batch,
                   assembler, embed, calls>>

\* generate_answer's handler of a failed request: after time.sleep(2) the
\* request is sent once more, and a second failure is raised.
AskRetry(c) ==
    /\ ask[c].pc = "retry"
    /\ \E outcome \in RequestOutcomes : Request(c, outcome)
    /\ UNCHANGED <<doc, current_chapter_number, current_chapter_title, result,
                   collection, runs, validator, batch,
                   assembler, embed, calls>>

NextAsk ==
    \E c \in Callers : AskCall(c) \/ AskRetrieve(c) \/ AskGenerate(c) \/ AskRetry(c)

SpecAsk == Init /\ [][NextAsk]_vars

\* generate_answer's own test of the question: not question, without
\* strip().
QuestionMissing(question) == question = ""

\* The lists of context chunks generate_answer is called with directly:
\* none, or what a search returned.
ContextLists ==
    { FormatSearchResults(QueryResult(first, n)) :
        first \in {1, PoolSize}, n \in 0..MaxMatches }

\* A direct call generate_answer(question, context_chunks) of the client by
\* caller c: only the missing question is refused; the chunks are cut to
\* max_chunks and formatted, whatever their number, and the request follows.
GenerateCall(c) ==
    /\ ask[c].pc = "idle"
    /\ \E q \in Questions, chunks \in ContextLists :
         ask' = [ask EXCEPT ![c] =
                   IF QuestionMissing(q)
                   THEN [@ EXCEPT !.pc = "raised", !.question = q,
                                  !.chunks = chunks,
                                  !.error = "Question cannot be empty"]
                   ELSE [@ EXCEPT !.pc = "generate", !.question = q,
                                  !.chunks = chunks]]
    /\ UNCHANGED <<doc, current_chapter_number, current_chapter_title, result,
                   collection, runs, validator, batch,
                   assembler, embed, calls>>

NextGenerate ==
    \E c \in Callers : GenerateCall(c) \/ AskGenerate(c) \/ AskRetry(c)

\* Direct calls of generate_answer, one per caller.
SpecGenerate == Init /\ [][NextGenerate]_vars

---------------------------------------------------------------------------
(* Embedding generation                                                    *)

\* for retry in range(3): the retries after a batch's first failed request.
EMBED_RETRIES == 3

\* What a request to the embedding service can come to: the embeddings of
\* the batch, or an exception of the client.
EmbedOutcomes == {"embeddings", "rate_limit", "network"}

\* response.usage.total_tokens of a successful request.
UsageTokens == {1, 2}

\* generate_embeddings(texts) is entered with the texts of so many batches;
\* without texts it returns the empty list at once.
EmbedCall ==
    /\ embed.pc = "idle"
    /\ \E n \in 0..MaxBatches :
         embed' = IF n = 0
                  THEN [embed EXCEPT !.pc = "returned"]
                  ELSE [embed EXCEPT !.pc = "request", !.batches = n,
                                     !.batch = 1]
    /\ UNCHANGED <<doc, current_chapter_number, current_chapter_title, result,
                   collection, runs, ask, validator, batch, assembler,
                   calls>>

\* The batch's embeddings are added to the list and its tokens to
\* self.total_tokens; the loop goes on to the next batch, or the list is
\* returned after the last.
BatchEmbedded(e, tokens) ==
    [e EXCEPT !.embeddings = @ + 1,
              !.total_tokens = @ + tokens,
              !.retry = 0,
              !.batch = IF e.batch < e.batches THEN @ + 1 ELSE @,
              !.pc = IF e.batch < e.batches THEN "request" ELSE "returned"]

\* except Exception as retry_error: the error is raised after the last
\* retry (retry == 2), and the loop continues with the next retry otherwise.
AfterFailedRetry(e) ==
    IF e.retry = EMBED_RETRIES - 1
    THEN [e EXCEPT !.pc = "raised"]
    ELSE [e EXCEPT !.retry = @ + 1]

\* The first request of a batch, in the try block of the batch loop: a
\* failure enters the retry loop.
EmbedRequest ==
    /\ embed.pc = "request"
    /\ \E outcome \in EmbedOutcomes, tokens \in UsageTokens :
         LET sent == [embed EXCEPT !.requests =
                         Append(@, [batch |-> embed.batch,
                                    outcome |-> outcome])]
         IN
         embed' = IF outcome = "embeddings"
                  THEN BatchEmbedded(sent, tokens)
                  ELSE [sent EXCEPT !.pc = "retry", !.retry = 0]
    /\ UNCHANGED <<doc, current_chapter_number, current_chapter_title, result,
                   collection, runs, ask, validator, batch, assembler,
                   calls>>

\* One pass of the retry loop: after time.sleep(2 ** retry) the batch's
\* request is sent again; success leaves the loop (break).
EmbedRetry ==
    /\ embed.pc = "retry"
    /\ \E outcome \in EmbedOutcomes, tokens \in UsageTokens :
         LET sent == [embed EXCEPT !.requests =
                         Append(@, [batch |-> embed.batch,
                                    outcome |-> outcome])]
         IN
         embed' = IF outcome = "embeddings"
                  THEN BatchEmbedded(sent, tokens)
                  ELSE AfterFailedRetry(sent)
    /\ UNCHANGED <<doc, current_chapter_number, current_chapter_title, result,
                   collection, runs, ask, validator, batch, assembler,
                   calls>>

NextEmbed == EmbedCall \/ EmbedRequest \/ EmbedRetry

\* One call of generate_embeddings.
SpecEmbed == Init /\ [][NextEmbed]_vars

---------------------------------------------------------------------------
(* Validation passes                                                       *)

\* The lines the validated documents are written from; the second chapter
\* heading has a number of more digits than int() converts.
ValidateLines ==
    { Line("chapter", 4, 1, "", "Efni"),
      Line("chapter", 4, -1, "", "Efni"),
      Line("section", 3, 0, "1.1", "Titill"),
      Line("text", 50, 0, "", "") }

\* One more line of the content at hand is written.
WriteValidateLine ==
    /\ Len(validator.passes) < 2
    /\ Len(doc) < MaxValidateLines
    /\ \E l \in ValidateLines : doc' = Append(doc, l)
    /\ UNCHANGED <<current_chapter_number, current_chapter_title, result,
                   collection, runs, ask, validator, batch,
                   assembler, embed, calls>>

\* The pass r, made by call on file with the validator in state validator.self,
\* is over; the next content is written from the start.
EndPass(call, file, r) ==
    /\ validator' =
         [self |-> r.self,
          passes |-> Append(validator.passes,
                       [call |-> call, file |-> file,
                        start_errors |-> validator.self.errors,
                        start_warnings |-> validator.self.warnings,
                        raised |-> r.raised, result |-> r.result])]
    /\ doc' = <<>>

\* validator.validate_content(content) on the content at hand.
CallValidateContent ==
    /\ Len(validator.passes) < 2
    /\ EndPass("validate_content", File("text", doc),
               ValidateContent(validator.self, doc))
    /\ UNCHANGED <<current_chapter_number, current_chapter_title, result,
                   collection, runs, ask, batch,
                   assembler, embed, calls>>

\* validator.validate_file(filepath) on a file holding the content at hand,
\* or on a file that cannot be read.
CallValidateFile ==
    /\ Len(validator.passes) < 2
    /\ \E kind \in FileKinds :
         /\ kind # "text" => doc = <<>>
         /\ EndPass("validate_file", File(kind, doc),
                    ValidateFile(validator.self, File(kind, doc)))
    /\ UNCHANGED <<current_chapter_number, current_chapter_title, result,
                   collection, runs, ask, batch,
                   assembler, embed, calls>>

NextValidate == WriteValidateLine \/ CallValidateContent \/ CallValidateFile

SpecValidate == Init /\ [][NextValidate]_vars

---------------------------------------------------------------------------
(* Batch runs with validation                                              *)

\* The lines the files of the input directory are written from.
BatchLines ==
    { Line("chapter", 4, 1, "", "Efni"),
      Line("section", 3, 0, "1.1", "Titill"),
      Line("text", 50, 0, "", ""),
      Line("text", 1200, 0, "", "") }

\* One more line of the file at hand is written.
WriteBatchLine ==
    /\ ~batch.done
    /\ Len(batch.files) < 2
    /\ Len(doc) < MaxBatchLines
    /\ \E l \in BatchLines : doc' = Append(doc, l)
    /\ UNCHANGED <<current_chapter_number, current_chapter_title, result,
                   collection, runs, ask, validator, batch,
                   assembler, embed, calls>>

\* The file at hand is put in the input directory, after the files that
\* are there.
AddFile ==
    /\ ~batch.done
    /\ Len(batch.files) < 2
    /\ batch' = [batch EXCEPT !.files = Append(@, doc)]
    /\ doc' = <<>>
    /\ UNCHANGED <<current_chapter_number, current_chapter_title, result,
                   collection, runs, ask, validator,
                   assembler, embed, calls>>

\* process_all of a new BatchIngestor(validate=True) reads the files of the
\* input directory.
BatchRun ==
    /\ ~batch.done
    /\ batch.files # <<>>
    /\ LET End(r) ==
             /\ batch' = [batch EXCEPT !.done = TRUE,
                                       !.outcomes = r.outcomes,
                                       !.errors = r.ing.errors]
             /\ current_chapter_number' = r.ing.processor.current_chapter_number
             /\ current_chapter_title' = r.ing.processor.current_chapter_title
             /\ validator' = [validator EXCEPT !.self = r.ing.validator]
       IN End(ValidatedReadFiles(batch.files, 1, NewIngestor, <<>>))
    /\ UNCHANGED <<doc, result, collection, runs, ask, assembler, embed,
                   calls>>

NextBatch == WriteBatchLine \/ AddFile \/ BatchRun

SpecBatch == Init /\ [][NextBatch]_vars

---------------------------------------------------------------------------
(* One validated file                                                      *)

\* The lines the validated file is written from: the chapter heading whole
\* and broken after its "#", a heading whose number int() cannot convert, a
\* line that cannot be encoded, a section header and text.
GateLines ==
    { Line("chapter", 4, 1, "", "Efni"),
      Line("chapter", 4, -1, "", "Efni"),
      Line("hash", 1, 0, "", ""),
      Line("kafli", 3, 1, "", "Efni"),
      Line("surrogate", 1, 0, "", ""),
      Line("section", 3, 0, "1.1", "Titill"),
      Line("text", 50, 0, "", "") }

\* One more line of the first file of the input directory is written.
WriteGateLine ==
    /\ ~batch.done
    /\ batch.files = <<>>
    /\ Len(doc) < MaxGateLines
    /\ \E l \in GateLines : MayFollow(doc, l) /\ doc' = Append(doc, l)
    /\ UNCHANGED <<current_chapter_number, current_chapter_title, result,
                   collection, runs, ask, validator, batch,
                   assembler, embed, calls>>

NextGate == WriteGateLine \/ AddFile \/ BatchRun

\* A batch run with validation whose first file is written line by line.
SpecGate == Init /\ [][NextGate]_vars

---------------------------------------------------------------------------
(* Properties                                                              *)

\* process_file was called on doc and returned its chunks.
Processed == result.called /\ ~result.raised

\* a occurs in b as a run of consecutive elements.
IsInfix(a, b) ==
    \E k \in 0..(Len(b) - Len(a)) : SubSeq(b, k + 1, k + Len(a)) = a

\* The blocks of a sequence of chunks, in order.
RECURSIVE BlocksOf(_)
BlocksOf(chunks) ==
    IF chunks = <<>> THEN <<>> ELSE Head(chunks).blocks \o BlocksOf(Tail(chunks))

\* The words of the blocks whose type is in types.
RECURSIVE WordsOfTypes(_, _)
WordsOfTypes(blocks, types) ==
    IF blocks = <<>> THEN 0
    ELSE (IF Head(blocks).type \in types THEN Head(blocks).word_count ELSE 0)
         + WordsOfTypes(Tail(blocks), types)

IsParagraph(b) == b.type = "paragraph"

\* The sections of doc, and the chunks returned that carry a section number.
Sections == SplitIntoSections(doc)

ChunksOfSection(num) ==
    LET Of(c) == c.metadata.section_number = num IN SelectSeq(result.chunks, Of)

UniqueNumber(i) ==
    \A j \in 1..Len(Sections) :
        j # i => Sections[j].section_number # Sections[i].section_number

\* The number of chunks a section yields.
ChunkCount(s) == Len(GroupBlocksIntoChunks(ParseContentBlocks(s.content)))

\* The lines of a section after its header, without the empty lines at
\* both ends.
Body(s) == StripRight(StripLeft(Tail(s.content)))

\* The section's only content is one paragraph: lines of plain text.
OnlyOneParagraph(s) ==
    Body(s) # <<>> /\ \A i \in 1..Len(Body(s)) : Body(s)[i].k = "text"

\* C1: the chunk_index values of the chunks process_file returns, read in
\* output order, are exactly 0, 1, ..., N-1 (the counter runs across the
\* sections, and a section without chunks leaves no gap).
C1_DenseChunkIndex ==
    Processed =>
        \A i \in 1..Len(result.chunks) :
            result.chunks[i].metadata.chunk_index = i - 1

\* C1, witness: a section that yields no chunk is followed by a section that
\* yields at least two.
C1_Witness ==
    /\ Processed
    /\ \E i, j \in 1..Len(Sections) :
         i < j /\ ChunkCount(Sections[i]) = 0 /\ ChunkCount(Sections[j]) >= 2

\* C2: a document without a line "# Kafli N: Title" makes process_file raise
\* and return no chunk; a document with such a line is not refused by the
\* chapter gate.
C2_ChapterGate ==
    result.called =>
        /\ (\A i \in 1..Len(doc) : doc[i].k # "chapter")
              => (result.raised /\ result.chunks = <<>>)
        /\ (\E i \in 1..Len(doc) : doc[i].k = "chapter")
              => ~(result.raised /\ result.error = "chapter")

\* A code block or block equation with its closing delimiter, or a list.
IsClosed(b) ==
    LET last == b.content[Len(b.content)] IN
    CASE b.type = "code" -> Len(b.content) >= 2 /\ IsFence(last)
      [] b.type = "equation" ->
            \/ Len(b.content) >= 2 /\ HasDoubleDollar(last)
            \/ Len(b.content) = 1 /\ ~DoubleDollarOnce(last)
      [] OTHER -> TRUE

\* The closed code, list and equation blocks of the source text from the
\* first section header on.
SourceAtomicBlocks ==
    LET ls == SplitLines(doc)
        first == FirstIn(ls, 1, {i \in 1..Len(ls) : IsSectionHeader(ls[i])})
        blocks == ParseContentBlocks(SubSeq(ls, first, Len(ls)))
    IN {blocks[i] : i \in {n \in 1..Len(blocks) :
                              /\ blocks[n].type \in AtomicTypes
                              /\ IsClosed(blocks[n])}}

\* C3: every code block, list and block equation of the source text (here:
\* of the text from the first section header on) is found whole in one
\* chunk.
C3_AtomicBlocksWhole ==
    Processed =>
        \A b \in SourceAtomicBlocks :
            \E i \in 1..Len(result.chunks) :
                IsInfix(StripRight(b.content), result.chunks[i].content)

C5_CodeEquationZeroWords ==
    Processed =>
        \A i \in 1..Len(result.chunks) :
            LET c == result.chunks[i] IN
            /\ \A n \in 1..Len(c.blocks) :
                 c.blocks[n].type \in {"code", "equation"}
                    => c.blocks[n].word_count = 0
            /\ c.metadata.word_count
                 = WordsOfTypes(c.blocks, {"heading", "paragraph", "list"})

\* C6: every chunk that is not the last chunk of the document and does not
\* consist of atomic blocks only has word_count >= MIN_CHUNK_SIZE.
C6_MinChunkSize ==
    Processed =>
        \A i \in 1..(Len(result.chunks) - 1) :
            LET c == result.chunks[i] IN
            (\E n \in 1..Len(c.blocks) : c.blocks[n].type \notin AtomicTypes)
                => c.metadata.word_count >= MIN_CHUNK_SIZE

\* C7: in every chunk the words of the paragraph and heading blocks total at
\* most MAX_CHUNK_SIZE; hence, when no atomic block is above MAX_CHUNK_SIZE,
\* every chunk has word_count <= MAX_CHUNK_SIZE.
C7_MaxParagraphWords ==
    Processed =>
        /\ \A i \in 1..Len(result.chunks) :
             WordsOfTypes(result.chunks[i].blocks, {"paragraph", "heading"})
                <= MAX_CHUNK_SIZE
        /\ (\A n \in 1..Len(BlocksOf(result.chunks)) :
                BlocksOf(result.chunks)[n].type \in AtomicTypes
                    => BlocksOf(result.chunks)[n].word_count <= MAX_CHUNK_SIZE)
              => \A i \in 1..Len(result.chunks) :
                    result.chunks[i].metadata.word_count <= MAX_CHUNK_SIZE

\* C8: the second ingestion run of the same document gives the same chunk
\* ids as the first, leaves the number of stored chunks unchanged, and does
\* not abort.
C8_IdempotentIngestion ==
    (Len(runs) = 2 /\ runs[1].ids # <<>> /\ ~runs[1].aborted) =>
        /\ runs[2].ids = runs[1].ids
        /\ runs[2].count = runs[1].count
        /\ ~runs[2].aborted

\* C9: ask with an empty or whitespace-only question raises, and no request
\* to the embedding service, the vector store or the generation service has
\* been made.
C9_EmptyQuestionRaises ==
    \A c \in Callers :
        (ask[c].pc # "idle" /\ ask[c].question \in {"", " "}) =>
            /\ ask[c].pc = "raised"
            /\ ask[c].embed_calls = 0
            /\ ask[c].store_calls = 0
            /\ ask[c].llm_calls = 0

\* C9, witness: ask has raised on a whitespace-only question.
C9_Witness ==
    \E c \in Callers : ask[c].pc = "raised" /\ ask[c].question = " "

\* C10: when the store returns zero matches, ask returns the fixed answer
\* with no citation and chunks_found = 0, and the generation service is not
\* called.
C10_NoMatchesFixedAnswer ==
    \A c \in Callers :
        ask[c].found = 0 =>
            /\ ask[c].pc = "returned"
            /\ ask[c].response.answer = NoRelevantAnswer
            /\ ask[c].response.citations = <<>>
            /\ ask[c].response.metadata.chunks_found = 0
            /\ ask[c].llm_calls = 0

\* C10, witness: ask has returned after a search without matches.
C10_Witness ==
    \E c \in Callers :
        ask[c].found = 0 /\ ask[c].pc = "returned" /\ ask[c].store_calls = 1

\* The ask calls that have reached generate_answer.
InGeneration(c) == ask[c].found > 0

Smaller(a, b) == IF a < b THEN a ELSE b

\* C12: the citation list returned with an answer has min(number of
\* retrieved chunks, max_context_chunks) entries, the i-th citation is
\* derived from the i-th retrieved chunk, and that chunk is the i-th one
\* placed in the prompt; no chunk beyond them is sent or cited.
C12_CitationsFollowContext ==
    \A c \in Callers :
        (InGeneration(c) /\ ask[c].pc = "returned") =>
            LET cites == ask[c].response.citations
                got == ask[c].chunks
                sent == ask[c].context
            IN /\ Len(got) = ask[c].found
               /\ Len(cites) = Smaller(Len(got), MAX_CONTEXT_CHUNKS)
               /\ Len(sent) = Len(cites)
               /\ \A i \in 1..Len(cites) :
                    /\ cites[i].section = got[i].metadata.section
                    /\ cites[i].chapter = got[i].metadata.chapter
                    /\ cites[i].title = got[i].metadata.title
                    /\ cites[i].text_preview.text = got[i].document.text
                    /\ cites[i].text_preview.cut = (got[i].document.chars > 100)
                    /\ sent[i].heimild = i
                    /\ sent[i].document = got[i].document
                    /\ sent[i].section = cites[i].section

\* C12, witness: an answer was returned for more retrieved chunks than
\* max_context_chunks.
C12_Witness ==
    \E c \in Callers :
        /\ ask[c].pc = "returned"
        /\ ask[c].found > MAX_CONTEXT_CHUNKS
        /\ Len(ask[c].response.citations) = MAX_CONTEXT_CHUNKS

\* What a pass on this file gives with a validator just constructed.
AloneResult(pass) ==
    IF pass.call = "validate_file"
    THEN ValidateFile(ValidatorReset, pass.file).result
    ELSE ValidateContent(ValidatorReset, pass.file.doc).result

\* C13: every validation pass starts with empty errors and warnings, and the
\* ValidationResult it returns is the one a new validator gives for the same
\* document, whatever was validated before with the same instance.
C13_PassStartsEmpty ==
    \A i \in 1..Len(validator.passes) :
        LET pass == validator.passes[i] IN
        ~pass.raised =>
            /\ pass.call = "validate_content"
                 => (pass.start_errors = <<>> /\ pass.start_warnings = <<>>)
            /\ pass.result = AloneResult(pass)

\* C15: in every ValidationResult valid is true exactly when errors is
\* empty, whatever the warnings are.
C15_ValidIffNoErrors ==
    \A i \in 1..Len(validator.passes) :
        LET r == validator.passes[i].result IN
        r.valid <=> (r.errors = <<>>)

\* C15, witness: a valid result with warnings has been returned after an
\* invalid one.
C15_Witness ==
    /\ Len(validator.passes) = 2
    /\ ~validator.passes[1].result.valid
    /\ validator.passes[2].result.valid
    /\ validator.passes[2].result.warnings # <<>>
    /\ ~validator.passes[2].raised

\* C16: validate_content and validate_file return a ValidationResult for
\* every input and never raise.
C16_ValidatorNeverRaises ==
    \A i \in 1..Len(validator.passes) : ~validator.passes[i].raised

\* What a batch run over the one file doc gives for it.
IngestedAlone(doc_alone) ==
    ValidatedReadFiles(<<doc_alone>>, 1, NewIngestor, <<>>).outcomes[1]

\* C14: in a batch run a file that fails validation or chunking is recorded
\* in the error list and does not affect the other files: each file that is
\* accepted when ingested alone is accepted in the batch with the same
\* chunks.
C14_BatchIsolation ==
    batch.done =>
        \A i \in 1..Len(batch.files) :
            /\ batch.outcomes[i].none
                 => \E k \in 1..Len(batch.errors) : batch.errors[k].file = i
            /\ IngestedAlone(batch.files[i]).accepted
                 => /\ batch.outcomes[i].accepted
                    /\ batch.outcomes[i].chunks
                         = IngestedAlone(batch.files[i]).chunks

\* ask(question) run alone from its entry to its return, the search
\* answering as in search and the generation service as in outcomes.
AskAlone(question, search, outcomes) ==
    LET chunks == FormatSearchResults(QueryResult(search.first, search.n))
        Raised(e) == [raised |-> TRUE, error |-> e, response |-> <<>>]
        Returned(r) == [raised |-> FALSE, error |-> "", response |-> r]
    IN
    IF QuestionIsEmpty(question) THEN Raised("Question cannot be empty")
    ELSE IF search.error # "" THEN Raised(search.error)
    ELSE IF NoChunks(chunks) THEN Returned(NoResultResponse)
    ELSE IF \E k \in 1..Min({2, Len(outcomes)}) : ~RequestFailed(outcomes[k])
    THEN Returned(AnswerResponse("svar", chunks))
    ELSE Raised("generation failed")

\* The call of caller c has ended.
Ended(c) == ask[c].pc \in {"returned", "raised"}

\* C17: concurrent ask calls on one pipeline are independent: a step of
\* ask writes nothing but the locals of its own call, and under any
\* interleaving each call ends as it ends when run alone with the same
\* question, the same answer of the index and the same answers of the
\* generation service.
C17_IndependentCalls ==
    /\ [](\A c \in Callers :
            Ended(c) =>
              LET alone == AskAlone(ask[c].question, ask[c].search,
                                    ask[c].requests)
              IN /\ (ask[c].pc = "raised") = alone.raised
                 /\ ask[c].error = alone.error
                 /\ ask[c].response = alone.response)
    /\ [][/\ collection' = collection
          /\ \A c \in Callers :
                ask'[c] # ask[c]
                  => \A d \in Callers \ {c} : ask'[d] = ask[d]]_vars

\* Two calls on one pipeline, under way together, retrieved different
\* chunks and both returned an answer.
C17_Witness ==
    /\ \A c \in {1, 2} : ask[c].pc = "returned" /\ ask[c].found > 0
    /\ ask[1].chunks # ask[2].chunks
    /\ ask[1].response # ask[2].response

\* The content blocks of a section: the blocks of its content that
\* _group_blocks_into_chunks does not skip as section headers.
ContentBlocksOf(s) ==
    LET Kept(b) == ~(b.type = "heading" /\ b.level = 2)
    IN SelectSeq(ParseContentBlocks(s.content), Kept)

\* The section has content, and no more than the target maximum of words.
SmallSection(s) ==
    /\ ContentBlocksOf(s) # <<>>
    /\ SumWordCounts(ContentBlocksOf(s)) <= TARGET_MAX_SIZE

C18_WitnessTwoBlocks ==
    /\ Processed
    /\ Len(Sections) = 1
    /\ SmallSection(Sections[1])
    /\ Len(ContentBlocksOf(Sections[1])) = 2
    /\ ContentBlocksOf(Sections[1])[1].word_count >= TARGET_MIN_SIZE
    /\ Len(result.chunks) = 1

\* The lines of a sequence of blocks, in order: the blocks' content joined.
RECURSIVE LinesOf(_)
LinesOf(blocks) ==
    IF blocks = <<>> THEN <<>>
    ELSE Head(blocks).content \o LinesOf(Tail(blocks))

\* kept is ls without some of its blank lines: every line of ls is the next
\* line of kept or a blank line left out, in the same order.  (A line equal
\* to the next line of kept is taken as that line: blank lines being equal,
\* leaving out a later one instead gives the same.)
RECURSIVE BlanksDropped(_, _)
BlanksDropped(ls, kept) ==
    IF ls = <<>> THEN kept = <<>>
    ELSE IF kept # <<>> /\ Head(kept) = Head(ls)
    THEN BlanksDropped(Tail(ls), Tail(kept))
    ELSE IsBlank(Head(ls)) /\ BlanksDropped(Tail(ls), kept)

\* C19: in a document process_file was called on, parsing a section body
\* loses nothing but blank lines: the content of the blocks, joined in the
\* order of the blocks, is the lines of the body in their order without
\* blank lines that stand between blocks, so that every other line is in
\* exactly one block, once.
C19_ParseLossless ==
    LET Lossless(ls, blocks) ==
            /\ BlanksDropped(ls, LinesOf(blocks))
            /\ \A b \in 1..Len(blocks) : ~IsBlank(Head(blocks[b].content))
        Each(sections) ==
            \A i \in 1..Len(sections) :
                Lossless(sections[i].content,
                         ParseContentBlocks(sections[i].content))
    IN result.called => Each(Sections)

\* A section of three blocks or more was parsed, with a blank line left
\* out between two of them.
C19_Witness ==
    /\ Processed
    /\ \E i \in 1..Len(Sections) :
         LET blocks == ParseContentBlocks(Sections[i].content) IN
         /\ Len(blocks) >= 3
         /\ Len(LinesOf(blocks)) < Len(Sections[i].content)

\* The passes of the loop of _parse_content_blocks over ls that made a
\* block, each with the line its block starts at and the line the loop
\* goes on from.
RECURSIVE Passes(_, _)
Passes(ls, i) ==
    IF i > Len(ls) THEN <<>>
    ELSE IF IsBlank(ls[i]) THEN Passes(ls, i + 1)
    ELSE LET Pass(b) ==
               <<[start |-> i, next |-> b.next, block |-> b.block]>>
               \o Passes(ls, b.next)
         IN Pass(BlockAt(ls, i))

\* The lines after the opening fence at line i up to its closing fence, or
\* to the end of ls when no fence follows.
FenceInterior(ls, i) ==
    LET after == {n \in (i + 1)..Len(ls) : IsFence(ls[n])}
    IN (i + 1)..(IF after = {} THEN Len(ls) ELSE Min(after))

\* C20: in a document process_file was called on, _parse_content_blocks
\* keeps every line between an opening fence and its closing fence, or the
\* end of the input when the fence is not closed, in the one code block the
\* fence opened: the block holds these lines and no block starts at one of
\* them, whatever the line looks like.
C20_FenceInteriorInCodeBlock ==
    LET Whole(ls, ps, p, inside) ==
            /\ ps[p].block.content
                 = SubSeq(ls, ps[p].start, ps[p].start + Cardinality(inside))
            /\ \A q \in 1..Len(ps) : ps[q].start \notin inside
        InBody(ls, ps) ==
            \A p \in 1..Len(ps) :
                ps[p].block.type = "code"
                  => Whole(ls, ps, p, FenceInterior(ls, ps[p].start))
        Each(sections) ==
            \A i \in 1..Len(sections) :
                InBody(sections[i].content, Passes(sections[i].content, 1))
    IN result.called => Each(Sections)

\* A section with a closed code block that holds a list item was parsed.
C20_Witness ==
    /\ Processed
    /\ \E i \in 1..Len(Sections) :
         LET ls == Sections[i].content
             ps == Passes(ls, 1)
         IN \E p \in 1..Len(ps) :
              /\ ps[p].block.type = "code"
              /\ \E n \in FenceInterior(ls, ps[p].start) : IsListItem(ls[n])
              /\ \E n \in FenceInterior(ls, ps[p].start) : IsFence(ls[n])

\* The line, standing where a block starts, opens a heading, a code block,
\* a list or an equation: the tests of _parse_content_blocks before the
\* paragraph.
OpensOtherBlock(l) ==
    \/ HeadingLevel(l) > 0
    \/ IsFence(l)
    \/ IsListItem(l)
    \/ HasDoubleDollar(l) \/ DollarWrapped(l)

\* C21: in a document process_file was called on, a paragraph block ends
\* before the first following line that is blank or that would itself open
\* a heading, a code block, a list or an equation (a line wrapped in single
\* $...$ too): no line of a paragraph after its first is such a line, and
\* the line after the paragraph, if there is one, is.
C21_ParagraphEndsAtBlockStart ==
    LET Ends(ls, pass) ==
            /\ \A n \in (pass.start + 1)..(pass.next - 1) :
                 ~IsBlank(ls[n]) /\ ~OpensOtherBlock(ls[n])
            /\ pass.next <= Len(ls)
                 => IsBlank(ls[pass.next]) \/ OpensOtherBlock(ls[pass.next])
        InBody(ls, ps) ==
            \A p \in 1..Len(ps) :
                ps[p].block.type = "paragraph" => Ends(ls, ps[p])
        Each(sections) ==
            \A i \in 1..Len(sections) :
                InBody(sections[i].content, Passes(sections[i].content, 1))
    IN result.called => Each(Sections)

\* The last block the loop of the assembler took.
LastBlock(a) == a.blocks[Len(a.blocks)]

\* The pass over the block b put it into the group that was open, from the
\* loop state st to the state after.
PutInOpenGroup(st, b, after) ==
    \/ after.current_chunk = Append(st.current_chunk, b)
    \/ after.chunks = Append(st.chunks, Append(st.current_chunk, b))

\* C22: in the chunk assembler no block is ever appended to a group whose
\* running word count has already reached MAX_CHUNK_SIZE, be the block
\* atomic, a paragraph or a heading: no pass of the loop does it, and in
\* the groups returned the blocks before any block of a group total less
\* than MAX_CHUNK_SIZE words.
C22_NoAppendAtMaximum ==
    /\ [](assembler.done =>
            \A g \in 1..Len(assembler.groups) :
                \A k \in 2..Len(assembler.groups[g]) :
                    SumWordCounts(SubSeq(assembler.groups[g], 1, k - 1))
                        < MAX_CHUNK_SIZE)
    /\ [][(assembler'.blocks # assembler.blocks
            /\ PutInOpenGroup(assembler.st, LastBlock(assembler'),
                              assembler'.st))
           => assembler.st.current_word_count < MAX_CHUNK_SIZE]_vars

\* An atomic block took a group above the maximum and was followed by a
\* small atomic block, which went into the next group.
C22_Witness ==
    /\ assembler.done
    /\ \E g \in 1..(Len(assembler.groups) - 1) :
         LET last == assembler.groups[g][Len(assembler.groups[g])]
             next == assembler.groups[g + 1][1]
         IN /\ last.type \in AtomicTypes
            /\ SumWordCounts(assembler.groups[g]) > MAX_CHUNK_SIZE
            /\ next.type \in AtomicTypes
            /\ next.word_count < MIN_CHUNK_SIZE

\* The blocks of a group but the last.
Front(g) == SubSeq(g, 1, Len(g) - 1)

\* C23: a chunk of more than MAX_CHUNK_SIZE words is a single atomic block
\* alone in its chunk, or ends with a paragraph or heading block before
\* which the chunk holds fewer than TARGET_MIN_SIZE words; an atomic block
\* of more than MAX_CHUNK_SIZE words is always the only block of its chunk.
C23_OversizedChunks ==
    assembler.done =>
        \A j \in 1..Len(assembler.groups) :
            LET g == assembler.groups[j] IN
            /\ SumWordCounts(g) > MAX_CHUNK_SIZE
                 => \/ Len(g) = 1 /\ g[1].type \in AtomicTypes
                    \/ /\ g[Len(g)].type \in {"paragraph", "heading"}
                       /\ SumWordCounts(Front(g)) < TARGET_MIN_SIZE
            /\ \A k \in 1..Len(g) :
                 (g[k].type \in AtomicTypes
                    /\ g[k].word_count > MAX_CHUNK_SIZE) => Len(g) = 1

\* A chunk above the maximum ends with a paragraph that follows other
\* blocks, and another holds one atomic block above the maximum.
C23_Witness ==
    /\ assembler.done
    /\ \E j \in 1..Len(assembler.groups) :
         LET g == assembler.groups[j] IN
         /\ SumWordCounts(g) > MAX_CHUNK_SIZE
         /\ Len(g) > 1
         /\ g[Len(g)].type = "paragraph"
    /\ \E j \in 1..Len(assembler.groups) :
         LET g == assembler.groups[j] IN
         g[1].type \in AtomicTypes /\ g[1].word_count > MAX_CHUNK_SIZE

\* The blocks the loop does not skip, in order.
KeptBlocks(blocks) ==
    LET Kept(b) == ~(b.type = "heading" /\ b.level = 2)
    IN SelectSeq(blocks, Kept)

\* The number of the group that holds the k-th of the blocks kept.
RECURSIVE GroupOf(_, _, _)
GroupOf(groups, j, k) ==
    IF k <= Len(groups[j]) THEN j
    ELSE GroupOf(groups, j + 1, k - Len(groups[j]))

\* Two atomic blocks, each above the maximum, follow one another at k and
\* k + 1 of the blocks kept.
TwoOversizedAtomic(kept, k) ==
    \A b \in {kept[k], kept[k + 1]} :
        b.type \in AtomicTypes /\ b.word_count > MAX_CHUNK_SIZE

\* C24 as stated: two consecutive atomic blocks that each exceed
\* MAX_CHUNK_SIZE words are packed into the same chunk.
C24_PackedTogether ==
    assembler.done =>
        LET kept == KeptBlocks(assembler.blocks) IN
        \A k \in 1..(Len(kept) - 1) :
            TwoOversizedAtomic(kept, k)
              => GroupOf(assembler.groups, 1, k)
                   = GroupOf(assembler.groups, 1, k + 1)

\* C24 amended: two consecutive atomic blocks that each exceed
\* MAX_CHUNK_SIZE words go into two chunks that follow one another, each
\* block the only block of its chunk.
C24_EachAlone ==
    assembler.done =>
        LET kept == KeptBlocks(assembler.blocks) IN
        \A k \in 1..(Len(kept) - 1) :
            TwoOversizedAtomic(kept, k)
              => LET j == GroupOf(assembler.groups, 1, k) IN
                 /\ assembler.groups[j] = <<kept[k]>>
                 /\ j < Len(assembler.groups)
                 /\ assembler.groups[j + 1] = <<kept[k + 1]>>

\* A list and a code block, each above the maximum, followed one another.
C24_Witness ==
    /\ assembler.done
    /\ \E k \in 1..(Len(KeptBlocks(assembler.blocks)) - 1) :
         TwoOversizedAtomic(KeptBlocks(assembler.blocks), k)
    /\ Len(assembler.groups) = 2

\* The message msg is among the messages ms.
Reports(ms, msg) == \E k \in 1..Len(ms) : ms[k].msg = msg

\* C25: validation is not short-circuit: whatever check failed before (empty
\* content, a missing, empty, oversized or undecodable file), the
\* chapter-heading check and the section-count check run and report; a pass
\* on content without chapter heading reports the missing heading, and a
\* pass on content with fewer than MIN_SECTIONS sections reports them.
C25_AllChecksRun ==
    \A i \in 1..Len(validator.passes) :
        LET pass == validator.passes[i] IN
        ~pass.raised =>
            /\ ~ExtractChapterInfo(pass.file.doc).found
                 => Reports(pass.result.errors, "Missing chapter heading")
            /\ Len(SectionHeaders(pass.file.doc)) < MIN_SECTIONS
                 => Reports(pass.result.errors, "Too few sections")

\* C26: generate_answer called with a question and an empty list of context
\* chunks raises an error about the context, and no request is sent to the
\* generation service, neither a first one nor a retry.
C26_EmptyContextRefused ==
    \A c \in Callers :
        (ask[c].pc # "idle" /\ ~QuestionIsEmpty(ask[c].question)
            /\ ask[c].chunks = <<>>)
        => /\ ask[c].llm_calls = 0
           /\ ask[c].requests = <<>>
           /\ Ended(c) => /\ ask[c].pc = "raised"
                          /\ ask[c].error = "Context cannot be empty"

\* The requests generate_embeddings sent for batch b.
RequestsFor(b) == { k \in 1..Len(embed.requests) : embed.requests[k].batch = b }

\* C27: a failed embedding request for a batch is retried once, and the
\* error is raised when the retry fails too: at most two requests are sent
\* for any one batch, and the call has raised once both have failed.
C27_RetriedOnce ==
    \A b \in 1..MaxBatches :
        /\ Cardinality(RequestsFor(b)) <= 2
        /\ (\E j, k \in RequestsFor(b) :
               j < k /\ embed.requests[j].outcome # "embeddings"
                     /\ embed.requests[k].outcome # "embeddings")
           => embed.pc = "raised"

\* The lines of ls that are not blank, in order.
NonBlank(ls) == LET Full(l) == ~IsBlank(l) IN SelectSeq(ls, Full)

\* The lines after the header of each section, the sections in order.
RECURSIVE BodyLines(_)
BodyLines(sections) ==
    IF sections = <<>> THEN <<>>
    ELSE Tail(Head(sections).content) \o BodyLines(Tail(sections))

\* C28: chunking loses no content of a section: the non-blank lines of the
\* document after the first numbered section header, the numbered section
\* headers themselves left out, are the lines of the chunks returned, each
\* once and in order, and the lines of a section are in the chunks that
\* carry its number.
C28_NoContentLost ==
    LET Same(ls, chunks) == NonBlank(ls) = NonBlank(LinesOf(BlocksOf(chunks)))
    IN
    Processed =>
        /\ Same(BodyLines(Sections), result.chunks)
        /\ \A i \in 1..Len(Sections) :
             UniqueNumber(i) =>
                Same(Tail(Sections[i].content),
                     ChunksOfSection(Sections[i].section_number))

\* A ContentProcessor as __init__ leaves it.
FreshProcessor == [current_chapter_number |-> 0, current_chapter_title |-> ""]

\* The chunks are those a new processor returned, and carry the chapter
\* number and title of the heading found.
OwnChunks(chunks, fresh, info) ==
    /\ chunks = fresh.chunks
    /\ \A i \in 1..Len(chunks) :
         /\ chunks[i].metadata.chapter_number = info.chapter_number
         /\ chunks[i].metadata.chapter_title = info.chapter_title

\* C29: the chunks process_file returns for a document depend on the
\* document only: whatever calls were made on the processor before, they are
\* the chunks a new processor returns for it, and each carries the chapter
\* number and title of the document's own heading; and a call that fails the
\* chapter gate leaves the stored chapter number and title as they were.
C29_ChunksDependOnDocumentOnly ==
    /\ [](Processed =>
            OwnChunks(result.chunks, ProcessFile(FreshProcessor, doc),
                      ExtractChapterInfo(doc)))
    /\ [][(~result.called /\ result'.called /\ result'.raised
              /\ result'.error = "chapter")
           => /\ current_chapter_number' = current_chapter_number
              /\ current_chapter_title' = current_chapter_title]_vars

\* A document of chapter 2 was chunked on a processor that had chunked a
\* document of another chapter before.
C29_Witness ==
    /\ Len(calls) = 2
    /\ ~calls[1].raised
    /\ Processed
    /\ result.chunks # <<>>
    /\ calls[1].chapter_number # ExtractChapterInfo(doc).chapter_number

\* A call failed the chapter gate on a processor that holds the chapter of
\* an earlier document.
C29_WitnessGateFailed ==
    /\ Len(calls) = 2
    /\ ~calls[1].raised
    /\ result.called /\ result.raised /\ result.error = "chapter"
    /\ current_chapter_number = calls[1].chapter_number
    /\ current_chapter_number # 0

====
